---- MODULE Spec2Model ----
(***************************************************************************)
(* A model of ghp-cli: the branch-link store (src/src/branch-linker.ts),   *)
(* the active-label reconciliation of the workflow commands (start,        *)
(* link-branch, switch, sync) and the filter pipeline of the plan and work *)
(* views.                                                                  *)
(*                                                                         *)
(* The specifications share the variables: SpecLinks drives the linker     *)
(* operations, SpecLabels and SpecManyHolders the workflow commands at the *)
(* granularity of their API calls, SpecFilter the filter pipelines,        *)
(* SpecSlices and SpecView the slice and view filters on their own,        *)
(* SpecSort the --sort comparator, SpecGroup the grouped display with its  *)
(* column widths, SpecBranches the branch ranking of start, SpecPlan the   *)
(* shortcut and view lookup of plan, SpecCompare the comparator on pairs   *)
(* of items, SpecRace two processes linking on one store, SpecResync two   *)
(* syncs in a row and SpecTwoSessions two interleaved reconciliations.     *)
(***************************************************************************)
EXTENDS Integers, Sequences, FiniteSets, TLC

VARIABLES
    file,       \* content of ~/.config/ghp-cli/branch-links.json
    prevFile,   \* content of the file before the last linker operation
    lastOp,     \* the last linker operation: its arguments and its outcome
    calls,      \* per process: the linkBranch call it is in, between load and save
    labels,         \* <<repo, issue>> of the open issues bearing the active label
    labelDefined,   \* the repositories in which the active label exists
    currentBranch,  \* the branch checked out in the working directory
    scope,          \* the configured active-label scope: "repo" or "project"
    failures,       \* number of API calls that have failed so far
    run,            \* per session: the command it runs and where it stands
    input,      \* the items the view command was first given
    items,      \* the items the view command is given now
    options,    \* the view command and its options
    shown,      \* the items the view command kept, once it has run
    fedBack     \* whether items is what the command kept of input

linkVars == <<file, prevFile, lastOp, calls>>

labelVars == <<labels, labelDefined, currentBranch, scope, failures, run>>

filterVars == <<input, items, options, shown, fedBack>>

vars == <<file, prevFile, lastOp, calls, labels, labelDefined, currentBranch, scope, failures, run,
          input, items, options, shown, fedBack>>

(***************************************************************************)
(* Bounds and input sets.                                                  *)
(***************************************************************************)
MaxIssue == 2

Repos == {"o/r1", "o/r2"}

\* Branch names a git repository can hold (never the empty string).
Branches == {"b1", "b2"}

Issues == 1 .. MaxIssue

\* Optional values: null is the empty sequence, a value v is <<v>>.
None == <<>>

Some(v) == <<v>>

\* No view command has been given anything.
NoView ==
    /\ input = <<>>
    /\ items = <<>>
    /\ options = [cmd |-> "none"]
    /\ shown = None
    /\ fedBack = FALSE

(***************************************************************************)
(* The item of an issue, as api.findItemByNumber returns it: the title and *)
(* the item id stored with a link are those of the issue.                  *)
(***************************************************************************)

IssueTitle(n) == <<"title", n>>

ItemId(n) == <<"item", n>>

\* BranchLink (linkedAt, a timestamp no operation reads, is left out).
BranchLink(branch, issueNumber, repo) ==
    [branch |-> branch, issueNumber |-> issueNumber,
     issueTitle |-> IssueTitle(issueNumber), itemId |-> ItemId(issueNumber),
     repo |-> repo]

(***************************************************************************)
(* The store file.  kind is one of                                         *)
(*   "missing"      existsSync is false                                    *)
(*   "unreadable"   readFileSync throws                                    *)
(*   "invalidJSON"  JSON.parse throws                                      *)
(*   "nonArray"     JSON.parse returns a value that is no array ({}, null, *)
(*                  a number, a string)                                    *)
(*   "links"        a JSON array of link records                           *)
(***************************************************************************)
FileKinds == {"missing", "unreadable", "invalidJSON", "nonArray", "links"}

StoreFile(kind, links) == [kind |-> kind, links |-> links]

\* loadLinks: the parsed value, or [] when the file is missing or the read or
\* the parse throws.  What JSON.parse returns is returned as it is.
loadLinks(f) ==
    CASE f.kind = "links"    -> [isArray |-> TRUE, elems |-> f.links]
      [] f.kind = "nonArray" -> [isArray |-> FALSE, elems |-> <<>>]
      [] OTHER               -> [isArray |-> TRUE, elems |-> <<>>]

\* saveLinks: the file becomes the JSON array of the links.
saveLinks(links) == StoreFile("links", links)

\* Array.prototype.filter is SelectSeq; Array.prototype.find is the first
\* element of what filter keeps, or undefined.
First(hits) == IF hits = <<>> THEN None ELSE Some(Head(hits))

\* A call on a value that is no array (links.filter, links.find) throws a
\* TypeError.
Throws(loaded) == ~loaded.isArray

\* linkBranch's filter: whether link l survives a new link (branch, issueNumber, repo).
LinkFilterIssueOnly(l, branch, issueNumber, repo) ==
    ~(l.repo = repo /\ l.issueNumber = issueNumber)

LinkFilterBranchOnly(l, branch, issueNumber, repo) ==
    ~(l.repo = repo /\ l.branch = branch)

\* A filter that drops the links of the branch or the issue in every repository.
LinkFilterAnyRepo(l, branch, issueNumber, repo) ==
    ~(l.branch = branch \/ l.issueNumber = issueNumber)

LinkFilterKeeps(l, branch, issueNumber, repo) ==
    ~(l.repo = repo /\ (l.branch = branch \/ l.issueNumber = issueNumber))

\* linkBranch: the array it saves.
Linked(links, branch, issueNumber, repo) ==
    LET Keep(l) == LinkFilterKeeps(l, branch, issueNumber, repo)
    IN  Append(SelectSeq(links, Keep), BranchLink(branch, issueNumber, repo))

\* unlinkBranch: the filtered array.
Unlinked(links, repo, issueNumber) ==
    LET Keep(l) == ~(l.repo = repo /\ l.issueNumber = issueNumber)
    IN  SelectSeq(links, Keep)

\* unlinkBranch's return value, from the array loaded and the array filtered.
UnlinkAlwaysTrue(links, filtered) == TRUE

UnlinkRemoved(links, filtered) == Len(filtered) # Len(links)

\* getBranchForIssue: link?.branch || null.
BranchOf(links, repo, issueNumber) ==
    LET Test(l) == l.repo = repo /\ l.issueNumber = issueNumber
        link == First(SelectSeq(links, Test))
    IN  IF link # None /\ link[1].branch # "" THEN Some(link[1].branch) ELSE None

\* getIssueForBranch: the first link of the branch, or null.
IssueOf(links, repo, branch) ==
    LET Test(l) == l.repo = repo /\ l.branch = branch
    IN  First(SelectSeq(links, Test))

\* getAllLinksForRepo.
LinksOf(links, repo) ==
    LET Test(l) == l.repo = repo IN SelectSeq(links, Test)

(***************************************************************************)
(* The linker operations.  Each records in lastOp what it was called with, *)
(* whether it threw and what it returned, and in prevFile the file it      *)
(* found.                                                                  *)
(***************************************************************************)
Op(name, repo, branch, issue, threw, wrote, ret) ==
    [op |-> name, repo |-> repo, branch |-> branch, issue |-> issue,
     threw |-> threw, wrote |-> wrote, ret |-> ret]

NoOp == Op("none", "", "", 0, FALSE, FALSE, None)

\* The CLI processes that share the store file.
Processes == {1, 2}

\* A linkBranch call of a process: its arguments, where it stands ("idle",
\* "loaded" once loadLinks has returned, "done" once saveLinks has returned,
\* "threw" when links.filter threw), and the value loadLinks returned to it.
LinkCall(pc, branch, issueNumber, repo, links) ==
    [pc |-> pc, branch |-> branch, issueNumber |-> issueNumber, repo |-> repo,
     links |-> links]

IdleCall == LinkCall("idle", "", 0, "", loadLinks(StoreFile("missing", <<>>)))

NoCalls == [p \in Processes |-> IdleCall]

linkBranch(branch, issueNumber, repo) ==
    LET links == loadLinks(file)
    IN  /\ prevFile' = file
        /\ IF Throws(links)
           THEN /\ file' = file
                /\ lastOp' = Op("linkBranch", repo, branch, issueNumber, TRUE, FALSE, None)
           ELSE /\ file' = saveLinks(Linked(links.elems, branch, issueNumber, repo))
                /\ lastOp' = Op("linkBranch", repo, branch, issueNumber, FALSE, TRUE, None)

unlinkBranch(repo, issueNumber) ==
    LET links == loadLinks(file)
        filtered == Unlinked(links.elems, repo, issueNumber)
    IN  /\ prevFile' = file
        /\ IF Throws(links)
           THEN /\ file' = file
                /\ lastOp' = Op("unlinkBranch", repo, "", issueNumber, TRUE, FALSE, None)
           ELSE IF ~UnlinkRemoved(links.elems, filtered)
           THEN /\ file' = file
                /\ lastOp' = Op("unlinkBranch", repo, "", issueNumber, FALSE, FALSE,
                                Some(FALSE))
           ELSE /\ file' = saveLinks(filtered)
                /\ lastOp' = Op("unlinkBranch", repo, "", issueNumber, FALSE, TRUE,
                                Some(TRUE))

getBranchForIssue(repo, issueNumber) ==
    LET links == loadLinks(file)
    IN  /\ prevFile' = file
        /\ file' = file
        /\ lastOp' = IF Throws(links)
                     THEN Op("getBranchForIssue", repo, "", issueNumber, TRUE, FALSE, None)
                     ELSE Op("getBranchForIssue", repo, "", issueNumber, FALSE, FALSE,
                             BranchOf(links.elems, repo, issueNumber))

getIssueForBranch(repo, branch) ==
    LET links == loadLinks(file)
    IN  /\ prevFile' = file
        /\ file' = file
        /\ lastOp' = IF Throws(links)
                     THEN Op("getIssueForBranch", repo, branch, 0, TRUE, FALSE, None)
                     ELSE Op("getIssueForBranch", repo, branch, 0, FALSE, FALSE,
                             IssueOf(links.elems, repo, branch))

getAllLinksForRepo(repo) ==
    LET links == loadLinks(file)
    IN  /\ prevFile' = file
        /\ file' = file
        /\ lastOp' = IF Throws(links)
                     THEN Op("getAllLinksForRepo", repo, "", 0, TRUE, FALSE, None)
                     ELSE Op("getAllLinksForRepo", repo, "", 0, FALSE, FALSE,
                             LinksOf(links.elems, repo))

\* unlinkBranchCommand: look the branch up, stop when there is none, unlink.
unlinkBranchCommand(repo, issueNumber) ==
    LET links == loadLinks(file)
        branchName == BranchOf(links.elems, repo, issueNumber)
        filtered == Unlinked(links.elems, repo, issueNumber)
    IN  /\ prevFile' = file
        /\ IF Throws(links)
           THEN /\ file' = file
                /\ lastOp' = Op("unlinkBranchCommand", repo, "", issueNumber, TRUE, FALSE,
                                None)
           ELSE IF branchName = None \/ ~UnlinkRemoved(links.elems, filtered)
           THEN /\ file' = file
                /\ lastOp' = Op("unlinkBranchCommand", repo, "", issueNumber, FALSE, FALSE,
                                Some(FALSE))
           ELSE /\ file' = saveLinks(filtered)
                /\ lastOp' = Op("unlinkBranchCommand", repo, "", issueNumber, FALSE, TRUE,
                                Some(TRUE))

(***************************************************************************)
(* The active label.                                                       *)
(*                                                                         *)
(* The workflow commands run in the working directory's repository CwdRepo *)
(* of a project whose second repository is OtherRepo.  A command is a      *)
(* prelude (git, the link store and the item lookup, up to its first label *)
(* call) followed by one step per label call of the API: ensureLabel,      *)
(* findIssuesWithLabel, removeLabelFromIssue, addLabelToIssue.  Each call  *)
(* may fail, and then returns false (or [] for the query) without any      *)
(* effect, as the catch blocks of the API methods make it.                 *)
(***************************************************************************)
PageSize == 10

NumIssues == 11

MaxFailures == 1

CwdRepo == "o/r1"

OtherRepo == "o/r2"

MainBranch == "main"

\* The issues the commands are run for.
Targets == {1, 2}

\* The issues that may bear the label: those of CwdRepo and one of OtherRepo.
LabelUniverse == ({CwdRepo} \X (1 .. NumIssues)) \cup {<<OtherRepo, 1>>}

Sessions == {1, 2}

\* generateBranchName for the issue's number and title.
GenBranch(n) == "user/" \o ToString(n) \o "-title"

\* The branches of the working directory besides main.
WorkBranches == {GenBranch(n) : n \in Targets}

\* The ascending sequence of a finite set of numbers.
RECURSIVE SortedSeq(_)
SortedSeq(S) ==
    IF S = {} THEN <<>>
    ELSE LET m == CHOOSE x \in S : \A y \in S : x <= y
         IN  <<m>> \o SortedSeq(S \ {m})

Prefix(s, n) == SubSeq(s, 1, IF Len(s) < n THEN Len(s) ELSE n)

Holders(repo) == {n \in 1 .. NumIssues : <<repo, n>> \in labels}

\* findIssuesWithLabel: issues(first: 10, labels, states: [OPEN]) of the
\* repository, in the connection's order (creation, i.e. issue number).
AllIssuesWithLabel(repo) ==
    LET all == SortedSeq(Holders(repo))
    IN  [i \in 1 .. Len(all) |-> <<repo, all[i]>>]

IssuesWithLabel(repo) ==
    LET all == SortedSeq(Holders(repo))
        page == Prefix(all, PageSize)
    IN  [i \in 1 .. Len(page) |-> <<repo, page[i]>>]

\* findProjectItemsWithLabel: the items of the project, of every member
\* repository, that carry the label.
ProjectItemsWithLabel == AllIssuesWithLabel(CwdRepo) \o AllIssuesWithLabel(OtherRepo)

\* A reconciliation that removes the label from no holder.
ToRemoveNone(holders, repo, target) == <<>>

\* The holders a reconciliation removes the label from: every queried holder
\* but the target (sync on a branch with no linked issue has target 0).
ToRemove(holders, repo, target) ==
    LET Other(h) == h # <<repo, target>> IN SelectSeq(holders, Other)

HasLabel(holders, repo, target) ==
    \E i \in 1 .. Len(holders) : holders[i] = <<repo, target>>

\* A sync that adds whenever its target is not among the holders, linked
\* issue or not.
NeedsAddWhenNotHeld(cmd, holders, repo, target) ==
    IF cmd = "sync" THEN ~HasLabel(holders, repo, target) ELSE TRUE

\* Whether the command adds the label to its target: start, link-branch and
\* switch always do; sync does when it has a target that is not among the
\* queried holders.
NeedsAdd(cmd, holders, repo, target) ==
    IF cmd = "sync" THEN target # 0 /\ ~HasLabel(holders, repo, target) ELSE TRUE

\* sync takes the project path when the scope is project and the current
\* branch has a linked issue.
ProjectPath(cmd, target) == cmd = "sync" /\ scope = "project" /\ target # 0

(***************************************************************************)
(* A session's run.  log holds the API calls made, <<call, repo, issue,    *)
(* returned true>>.                                                        *)
(***************************************************************************)
IdleRun ==
    [cmd |-> "none", target |-> 0, pc |-> "idle", outcome |-> "none",
     holders |-> <<>>, toRemove |-> <<>>, idx |-> 1, needsAdd |-> FALSE,
     queried |-> FALSE, log |-> <<>>]

NewRun(cmd, target, pc) ==
    [cmd |-> cmd, target |-> target, pc |-> pc, outcome |-> "running",
     holders |-> <<>>, toRemove |-> <<>>, idx |-> 1, needsAdd |-> FALSE,
     queried |-> FALSE, log |-> <<>>]

\* The command has ended: it returned, or called process.exit(code).
Ended(r, outcome) == [r EXCEPT !.pc = "done", !.outcome = outcome]

Free(p) == run[p].pc \in {"idle", "done"}

\* An API call may fail while the budget of failures lasts.
MayFail(ok) == ok \/ failures < MaxFailures

Count(ok) == IF ok THEN failures ELSE failures + 1

\* Where a command goes once its removals are over.
AfterRemovals(cmd, needsAdd) ==
    CASE cmd = "switch" -> "ensure"
      [] cmd = "sync"   -> IF needsAdd THEN "add" ELSE "done"
      [] OTHER          -> "add"

\* A removal loop that gives up at the first removal that fails.
AfterRemoveAbortOnFailure(r, ok) ==
    IF ~ok THEN "done"
    ELSE IF r.idx < Len(r.toRemove)
    THEN (IF ProjectPath(r.cmd, r.target) THEN "ensureOther" ELSE "remove")
    ELSE AfterRemovals(r.cmd, r.needsAdd)

\* Where a command goes after the removal of toRemove[idx] returned ok: on
\* to the next holder, whatever the removal returned.
AfterRemove(r, ok) ==
    IF r.idx < Len(r.toRemove)
    THEN (IF ProjectPath(r.cmd, r.target) THEN "ensureOther" ELSE "remove")
    ELSE AfterRemovals(r.cmd, r.needsAdd)

\* Where a command goes after the holders were queried.
AfterQuery(cmd, target, toRemove, needsAdd) ==
    IF cmd = "sync" /\ toRemove = <<>> /\ ~needsAdd THEN "done"
    ELSE IF toRemove # <<>>
    THEN (IF ProjectPath(cmd, target) THEN "ensureOther" ELSE "remove")
    ELSE AfterRemovals(cmd, needsAdd)

\* Where a command goes after ensureLabel on its own repository.
AfterEnsure(cmd, target) ==
    CASE cmd = "switch"            -> "add"
      [] ProjectPath(cmd, target)  -> "queryProject"
      [] OTHER                     -> "query"

Step(r, pc) == IF pc = "done" THEN Ended(r, "returned") ELSE [r EXCEPT !.pc = pc]

Logged(r, call, repo, issue, ok) ==
    [r EXCEPT !.log = Append(r.log, <<call, repo, issue, ok>>)]

(***************************************************************************)
(* The label calls.                                                        *)
(***************************************************************************)
\* api.ensureLabel(repo, activeLabel) on the command's repository.
EnsureLabel(p) ==
    /\ run[p].pc = "ensure"
    /\ \E ok \in BOOLEAN :
        /\ MayFail(ok)
        /\ failures' = Count(ok)
        /\ labelDefined' = IF ok THEN labelDefined \cup {CwdRepo} ELSE labelDefined
        /\ run' = [run EXCEPT ![p] =
                     Step(Logged(run[p], "ensureLabel", CwdRepo, 0, ok),
                          AfterEnsure(run[p].cmd, run[p].target))]
    /\ UNCHANGED <<labels, currentBranch, scope, linkVars, filterVars>>

\* sync, project path: api.ensureLabel(i.repo, activeLabel) before a removal.
EnsureOther(p) ==
    /\ run[p].pc = "ensureOther"
    /\ LET i == run[p].toRemove[run[p].idx]
       IN  \E ok \in BOOLEAN :
            /\ MayFail(ok)
            /\ failures' = Count(ok)
            /\ labelDefined' = IF ok THEN labelDefined \cup {i[1]} ELSE labelDefined
            /\ run' = [run EXCEPT ![p] =
                         Step(Logged(run[p], "ensureLabel", i[1], 0, ok), "remove")]
    /\ UNCHANGED <<labels, currentBranch, scope, linkVars, filterVars>>

\* The queried holders, what to remove and whether to add, recorded in the run.
Queried(r, holders) ==
    LET toRemove == ToRemove(holders, CwdRepo, r.target)
        needsAdd == NeedsAdd(r.cmd, holders, CwdRepo, r.target)
    IN  Step([r EXCEPT !.holders = holders, !.toRemove = toRemove, !.idx = 1,
                       !.needsAdd = needsAdd, !.queried = TRUE],
             AfterQuery(r.cmd, r.target, toRemove, needsAdd))

\* api.findIssuesWithLabel(repo, activeLabel); [] when the request fails.
FindIssuesWithLabel(p) ==
    /\ run[p].pc = "query"
    /\ \E ok \in BOOLEAN :
        /\ MayFail(ok)
        /\ failures' = Count(ok)
        /\ LET holders == IF ok THEN IssuesWithLabel(CwdRepo) ELSE <<>>
           IN  run' = [run EXCEPT ![p] =
                         Queried(Logged(run[p], "findIssuesWithLabel", CwdRepo, 0, ok),
                                 holders)]
    /\ UNCHANGED <<labels, labelDefined, currentBranch, scope, linkVars, filterVars>>

\* sync, project path: api.findItemByNumber, which may find the issue on no
\* project board, then api.findProjectItemsWithLabel(item.projectId, activeLabel).
FindProjectItemsWithLabel(p) ==
    /\ run[p].pc = "queryProject"
    /\ \/ /\ run' = [run EXCEPT ![p] = Ended(run[p], "returned")]
          /\ UNCHANGED failures
       \/ \E ok \in BOOLEAN :
            /\ MayFail(ok)
            /\ failures' = Count(ok)
            /\ LET holders == IF ok THEN ProjectItemsWithLabel ELSE <<>>
               IN  run' = [run EXCEPT ![p] =
                             Queried(Logged(run[p], "findProjectItemsWithLabel",
                                            CwdRepo, 0, ok), holders)]
    /\ UNCHANGED <<labels, labelDefined, currentBranch, scope, linkVars, filterVars>>

\* api.removeLabelFromIssue(repo, otherIssue, activeLabel) for toRemove[idx].
RemoveLabelFromIssue(p) ==
    /\ run[p].pc = "remove"
    /\ LET i == run[p].toRemove[run[p].idx]
       IN  \E ok \in BOOLEAN :
            /\ MayFail(ok)
            /\ failures' = Count(ok)
            /\ labels' = IF ok THEN labels \ {i} ELSE labels
            /\ run' = [run EXCEPT ![p] =
                         Step([Logged(run[p], "removeLabelFromIssue", i[1], i[2], ok)
                                   EXCEPT !.idx = run[p].idx + 1],
                              AfterRemove(run[p], ok))]
    /\ UNCHANGED <<labelDefined, currentBranch, scope, linkVars, filterVars>>

\* api.addLabelToIssue(repo, issueNumber, activeLabel): false, with no
\* mutation, when the repository has no such label.
AddLabelToIssue(p) ==
    /\ run[p].pc = "add"
    /\ \E reached \in BOOLEAN :
        /\ MayFail(reached)
        /\ failures' = Count(reached)
        /\ LET ok == reached /\ CwdRepo \in labelDefined
           IN  /\ labels' = IF ok THEN labels \cup {<<CwdRepo, run[p].target>>} ELSE labels
               /\ run' = [run EXCEPT ![p] =
                            Ended(Logged(run[p], "addLabelToIssue", CwdRepo,
                                         run[p].target, ok), "returned")]
    /\ UNCHANGED <<labelDefined, currentBranch, scope, linkVars, filterVars>>

(***************************************************************************)
(* The commands' preludes.  What git and the item lookup answer is an      *)
(* input: whether the issue is on a project board, whether the work tree   *)
(* is dirty and what the user answers, whether a branch exists, whether a  *)
(* checkout succeeds.  The store file holds a JSON array here.             *)
(***************************************************************************)
LinkedBranch(n) == BranchOf(loadLinks(file).elems, CwdRepo, n)

\* start goes on to the status update and to applyActiveLabel.
StartProceeds(p, n, moved) ==
    LET r == NewRun("start", n, "ensure")
    IN  run' = [run EXCEPT ![p] =
                  IF moved THEN Logged(r, "updateItemStatus", CwdRepo, n, TRUE) ELSE r]

\* startCommand: the issue is on no project board.
StartNotFound(p, n) ==
    /\ run' = [run EXCEPT ![p] = Ended(NewRun("start", n, "done"), "exit1")]
    /\ UNCHANGED <<file, currentBranch>>

\* A start that asks about the uncommitted changes only after it has checked
\* the branch out.
StartAbortedAfterCheckout(p, n) ==
    /\ LinkedBranch(n) # None => currentBranch # LinkedBranch(n)[1]
    /\ run' = [run EXCEPT ![p] = Ended(NewRun("start", n, "done"), "exit0")]
    /\ currentBranch' = IF LinkedBranch(n) # None THEN LinkedBranch(n)[1] ELSE GenBranch(n)
    /\ file' = file

\* startCommand, on a path that switches branches: uncommitted changes and
\* no "y" to the prompt.
StartAborted(p, n) ==
    /\ LinkedBranch(n) # None => currentBranch # LinkedBranch(n)[1]
    /\ run' = [run EXCEPT ![p] = Ended(NewRun("start", n, "done"), "exit0")]
    /\ UNCHANGED <<file, currentBranch>>

\* startCommand: the issue has a linked branch; check it out unless it is
\* the current one.
StartLinked(p, n) ==
    /\ LinkedBranch(n) # None
    /\ \E there \in BOOLEAN, moved \in BOOLEAN :
        IF currentBranch = LinkedBranch(n)[1] \/ there
        THEN /\ currentBranch' = LinkedBranch(n)[1]
             /\ StartProceeds(p, n, moved)
        ELSE /\ currentBranch' = currentBranch
             /\ run' = [run EXCEPT ![p] = Ended(NewRun("start", n, "done"), "exit1")]
    /\ UNCHANGED file

\* startCommand with --no-branch and no linked branch.
StartNoBranch(p, n) ==
    /\ LinkedBranch(n) = None
    /\ \E moved \in BOOLEAN : StartProceeds(p, n, moved)
    /\ UNCHANGED <<file, currentBranch>>

\* startCommand: no linked branch, "Link existing branch": link the selected
\* branch and check it out.
StartLinkExisting(p, n) ==
    /\ LinkedBranch(n) = None
    /\ \E selected \in WorkBranches, moved \in BOOLEAN :
        /\ file' = saveLinks(Linked(loadLinks(file).elems, selected, n, CwdRepo))
        /\ currentBranch' = selected
        /\ StartProceeds(p, n, moved)

\* startCommand: no linked branch, create one (from main after a checkout of
\* main, or from the current branch): createAndLinkBranch.
StartCreate(p, n) ==
    /\ LinkedBranch(n) = None
    /\ \E fromMain \in BOOLEAN, there \in BOOLEAN, checkout \in BOOLEAN,
          created \in BOOLEAN, moved \in BOOLEAN :
        LET base == IF fromMain THEN MainBranch ELSE currentBranch
        IN  IF ~there /\ ~created
            THEN /\ currentBranch' = base
                 /\ file' = file
                 /\ run' = [run EXCEPT ![p] = Ended(NewRun("start", n, "done"), "exit1")]
            ELSE /\ currentBranch' = IF there /\ ~checkout THEN base ELSE GenBranch(n)
                 /\ file' = saveLinks(Linked(loadLinks(file).elems, GenBranch(n), n, CwdRepo))
                 /\ StartProceeds(p, n, moved)

BeginStart(p) ==
    /\ Free(p)
    /\ \E n \in Targets :
        \/ StartNotFound(p, n)
        \/ StartAborted(p, n)
        \/ StartLinked(p, n)
        \/ StartNoBranch(p, n)
        \/ StartLinkExisting(p, n)
        \/ StartCreate(p, n)
    /\ UNCHANGED <<labels, labelDefined, scope, failures, prevFile, lastOp, calls, filterVars>>

\* linkBranchCommand(issue, branch): link, and reconcile the label when the
\* linked branch is the one checked out.
BeginLinkBranch(p) ==
    /\ Free(p)
    /\ \E n \in Targets, branchName \in WorkBranches \cup {currentBranch} :
        \/ /\ run' = [run EXCEPT ![p] = Ended(NewRun("linkBranch", n, "done"), "exit1")]
           /\ file' = file
        \/ /\ file' = saveLinks(Linked(loadLinks(file).elems, branchName, n, CwdRepo))
           /\ run' = [run EXCEPT ![p] =
                        IF currentBranch = branchName
                        THEN NewRun("linkBranch", n, "ensure")
                        ELSE Ended(NewRun("linkBranch", n, "done"), "returned")]
    /\ UNCHANGED <<labels, labelDefined, currentBranch, scope, failures, prevFile, lastOp, calls, filterVars>>

\* A switchCommand that reconciles the label also when it has no checkout to do.
SwitchOnLinkedBranchReconciles(n) == "query"

\* switchCommand when the linked branch is already checked out: it returns
\* at once, with no label call.
SwitchOnLinkedBranch(n) == "done"

\* switchCommand(issue).
BeginSwitch(p) ==
    /\ Free(p)
    /\ \E n \in Targets, there \in BOOLEAN, checkedOut \in BOOLEAN :
        IF LinkedBranch(n) = None \/ ~there
        THEN /\ run' = [run EXCEPT ![p] = Ended(NewRun("switch", n, "done"), "exit1")]
             /\ currentBranch' = currentBranch
        ELSE IF currentBranch = LinkedBranch(n)[1]
        THEN /\ run' = [run EXCEPT ![p] =
                          Step(NewRun("switch", n, "start"), SwitchOnLinkedBranch(n))]
             /\ currentBranch' = currentBranch
        ELSE IF ~checkedOut
        THEN /\ run' = [run EXCEPT ![p] = Ended(NewRun("switch", n, "done"), "exit1")]
             /\ currentBranch' = currentBranch
        ELSE /\ run' = [run EXCEPT ![p] = NewRun("switch", n, "query")]
             /\ currentBranch' = LinkedBranch(n)[1]
    /\ UNCHANGED <<labels, labelDefined, scope, failures, linkVars, filterVars>>

\* syncCommand: the issue linked to the current branch, if any, is the target.
BeginSync(p) ==
    /\ Free(p)
    /\ LET linkedIssue == IssueOf(loadLinks(file).elems, CwdRepo, currentBranch)
           target == IF linkedIssue = None THEN 0 ELSE linkedIssue[1].issueNumber
       IN  run' = [run EXCEPT ![p] = NewRun("sync", target, "ensure")]
    /\ UNCHANGED <<labels, labelDefined, currentBranch, scope, failures, linkVars, filterVars>>

\* The user checks a branch out with git itself.
GitCheckout ==
    /\ \A p \in Sessions : Free(p)
    /\ \E b \in WorkBranches \cup {MainBranch} :
        /\ b # currentBranch
        /\ currentBranch' = b
    /\ UNCHANGED <<labels, labelDefined, scope, failures, run, linkVars, filterVars>>

(***************************************************************************)
(* SpecLabels: one session runs the commands one after the other.          *)
(***************************************************************************)
\* The holders the label may have before the first command: any few issues.
InitialHolders == SUBSET {1, 2, 3}

\* More holders than one page of findIssuesWithLabel holds.
ManyHolders == {1 .. k : k \in PageSize + 1 .. NumIssues}

InitLabels ==
    /\ file = StoreFile("missing", <<>>)
    /\ prevFile = file
    /\ lastOp = NoOp
    /\ calls = NoCalls
    /\ \E H \in InitialHolders, O \in SUBSET {<<OtherRepo, 1>>} :
        /\ labels = ({CwdRepo} \X H) \cup O
        /\ labelDefined = {l[1] : l \in labels}
    /\ currentBranch = MainBranch
    /\ scope \in {"repo", "project"}
    /\ failures = 0
    /\ run = [p \in Sessions |-> IdleRun]
    /\ NoView

NextLabels ==
    \/ BeginStart(1)
    \/ BeginLinkBranch(1)
    \/ BeginSwitch(1)
    \/ BeginSync(1)
    \/ EnsureLabel(1)
    \/ EnsureOther(1)
    \/ FindIssuesWithLabel(1)
    \/ FindProjectItemsWithLabel(1)
    \/ RemoveLabelFromIssue(1)
    \/ AddLabelToIssue(1)
    \/ GitCheckout

SpecLabels == InitLabels /\ [][NextLabels]_vars

(***************************************************************************)
(* SpecManyHolders: the same session, in a repository where the label      *)
(* starts on more issues than one page holds.                              *)
(***************************************************************************)
InitManyHolders ==
    /\ file = StoreFile("missing", <<>>)
    /\ prevFile = file
    /\ lastOp = NoOp
    /\ calls = NoCalls
    /\ \E H \in ManyHolders, O \in SUBSET {<<OtherRepo, 1>>} :
        /\ labels = ({CwdRepo} \X H) \cup O
        /\ labelDefined = {l[1] : l \in labels}
    /\ currentBranch = MainBranch
    /\ scope \in {"repo", "project"}
    /\ failures = 0
    /\ run = [p \in Sessions |-> IdleRun]
    /\ NoView

SpecManyHolders == InitManyHolders /\ [][NextLabels]_vars

(***************************************************************************)
(* SpecLinks: the linker operations on a store that starts missing, empty  *)
(* or corrupt.                                                             *)
(***************************************************************************)
InitLinks ==
    /\ file \in {StoreFile(k, <<>>) : k \in FileKinds}
    /\ prevFile = file
    /\ lastOp = NoOp
    /\ calls = NoCalls
    /\ labels = {}
    /\ labelDefined = {}
    /\ currentBranch = MainBranch
    /\ scope = "repo"
    /\ failures = 0
    /\ run = [p \in Sessions |-> IdleRun]
    /\ NoView

DoLink ==
    /\ \E r \in Repos, b \in Branches, n \in Issues : linkBranch(b, n, r)
    /\ UNCHANGED <<calls, labelVars, filterVars>>

DoUnlink ==
    /\ \E r \in Repos, n \in Issues : unlinkBranch(r, n)
    /\ UNCHANGED <<calls, labelVars, filterVars>>

DoGetBranch ==
    /\ \E r \in Repos, n \in Issues : getBranchForIssue(r, n)
    /\ UNCHANGED <<calls, labelVars, filterVars>>

DoGetIssue ==
    /\ \E r \in Repos, b \in Branches : getIssueForBranch(r, b)
    /\ UNCHANGED <<calls, labelVars, filterVars>>

DoGetAll ==
    /\ \E r \in Repos : getAllLinksForRepo(r)
    /\ UNCHANGED <<calls, labelVars, filterVars>>

DoUnlinkCommand ==
    /\ \E r \in Repos, n \in Issues : unlinkBranchCommand(r, n)
    /\ UNCHANGED <<calls, labelVars, filterVars>>

NextLinks ==
    \/ DoLink
    \/ DoUnlink
    \/ DoGetBranch
    \/ DoGetIssue
    \/ DoGetAll
    \/ DoUnlinkCommand

SpecLinks == InitLinks /\ [][NextLinks]_vars

(***************************************************************************)
(* Strings, as the String methods of JavaScript compute them.  Positions   *)
(* count from 1 here; indexOf is 0 when the text is absent.                *)
(***************************************************************************)
Uppers == "ABCDEFGHIJKLMNOPQRSTUVWXYZ"

Lowers == "abcdefghijklmnopqrstuvwxyz"

\* \w of a regular expression.
WordChars ==
    LET all == Uppers \o Lowers \o "0123456789_"
    IN  {SubSeq(all, k, k) : k \in 1 .. Len(all)}

charAt(s, i) == SubSeq(s, i, i)

sliceFrom(s, from) == SubSeq(s, from, Len(s))

indexOf(s, t) ==
    LET at == {i \in 1 .. Len(s) - Len(t) + 1 : SubSeq(s, i, i + Len(t) - 1) = t}
    IN  IF at = {} THEN 0 ELSE CHOOSE i \in at : \A j \in at : i <= j

includes(s, t) == indexOf(s, t) # 0

startsWith(s, t) == Len(t) <= Len(s) /\ SubSeq(s, 1, Len(t)) = t

endsWith(s, t) == Len(t) <= Len(s) /\ SubSeq(s, Len(s) - Len(t) + 1, Len(s)) = t

\* The lower-case letter of each upper-case letter.
LowerCase == [c \in {charAt(Uppers, k) : k \in 1 .. Len(Uppers)} |->
                charAt(Lowers, indexOf(Uppers, c))]

RECURSIVE toLowerCase(_)
toLowerCase(s) ==
    IF s = "" THEN ""
    ELSE LET c == charAt(s, 1)
         IN  (IF c \in DOMAIN LowerCase THEN LowerCase[c] ELSE c)
                \o toLowerCase(sliceFrom(s, 2))

\* String.prototype.split on a separator of one character.
RECURSIVE split(_, _)
split(s, sep) ==
    LET k == indexOf(s, sep)
    IN  IF k = 0 THEN <<s>>
        ELSE <<SubSeq(s, 1, k - 1)>> \o split(sliceFrom(s, k + 1), sep)

RECURSIVE trim(_)
trim(s) ==
    IF startsWith(s, " ") THEN trim(sliceFrom(s, 2))
    ELSE IF endsWith(s, " ") THEN trim(SubSeq(s, 1, Len(s) - 1))
    ELSE s

\* A filter that never looks at the first element (a loop from the second).
filterAfterFirst(list, test) ==
    LET Kept(i) == i > 1 /\ test[i]
        at == SelectSeq([i \in 1 .. Len(list) |-> i], Kept)
    IN  [k \in 1 .. Len(at) |-> list[at[k]]]

\* Array.prototype.filter, given the test's value for each element: the
\* elements whose test is true, in their order.
filter(list, test) ==
    LET Kept(i) == test[i]
        at == SelectSeq([i \in 1 .. Len(list) |-> i], Kept)
    IN  [k \in 1 .. Len(at) |-> list[at[k]]]

\* Array.prototype.some over the strings of a list.
SomeIncludes(list, valueLower) ==
    \E i \in 1 .. Len(list) : includes(toLowerCase(list[i]), valueLower)

SomeEquals(list, valueLower) ==
    \E i \in 1 .. Len(list) : toLowerCase(list[i]) = valueLower

\* s?.toLowerCase() of a string that may be null.
LowerOf(s) == IF s = None THEN None ELSE Some(toLowerCase(s[1]))

(***************************************************************************)
(* Project items (getProjectItems).  fields holds the item's field values  *)
(* as <<name, value>> in the order received, names distinct, values never  *)
(* empty; status is fields['Status'] || null.                              *)
(***************************************************************************)
\* fields[key]: the value, or undefined.
FieldValue(fields, key) ==
    LET Is(e) == e[1] = key
        hits == SelectSeq(fields, Is)
    IN  IF hits = <<>> THEN None ELSE Some(hits[1][2])

\* Object.entries(fields).find(([k]) => k.toLowerCase() === fieldLower)?.[1]
FieldValueIgnoringCase(fields, fieldLower) ==
    LET Is(e) == toLowerCase(e[1]) = fieldLower
        hits == SelectSeq(fields, Is)
    IN  IF hits = <<>> THEN None ELSE Some(hits[1][2])

Truthy(v) == v # None /\ v[1] # ""

\* a || b
OrElse(a, b) == IF Truthy(a) THEN a ELSE b

ProjectItem(number, assignees, labelNames, issueType, state, repository, project, fields) ==
    [number |-> number, assignees |-> assignees, labels |-> labelNames,
     issueType |-> issueType, status |-> OrElse(FieldValue(fields, "Status"), None),
     state |-> state, repository |-> repository, projectId |-> project[1],
     projectTitle |-> project[2], fields |-> fields]

(***************************************************************************)
(* --slice field=value (plan and work).                                    *)
(***************************************************************************)
\* const [field, value] = slice.split('='): value is undefined when the
\* slice has no '='.
SliceField(slice) == split(slice, "=")[1]

SliceValue(slice) ==
    LET parts == split(slice, "=")
    IN  IF Len(parts) >= 2 THEN Some(parts[2]) ELSE None

\* if (!field || !value)
SliceSkipped(slice) == SliceField(slice) = "" \/ ~Truthy(SliceValue(slice))

\* A skipped slice taken as a test that no item passes.
SkippedSliceFails(list) == <<>>

\* What the loop goes on with after a slice it skipped (continue): the
\* list as it is.
SkippedSliceLeaves(list) == list

\* The custom-field tail of a slice's test.
CustomFieldKeeps(item, field, valueLower) ==
    LET fieldLower == toLowerCase(field)
        fieldValue == OrElse(FieldValue(item.fields, field),
                             FieldValue(item.fields, fieldLower))
        matchingField == FieldValueIgnoringCase(item.fields, fieldLower)
    IN  IF Truthy(fieldValue) THEN includes(toLowerCase(fieldValue[1]), valueLower)
        ELSE IF matchingField # None
        THEN includes(toLowerCase(matchingField[1]), valueLower)
        ELSE FALSE

\* planCommand: the test of one slice on one item.
PlanSliceKeeps(item, field, value) ==
    LET fieldLower == toLowerCase(field)
        valueLower == toLowerCase(value)
    IN  CASE fieldLower \in {"assignee", "user"} ->
                SomeIncludes(item.assignees, valueLower)
          [] fieldLower = "label" ->
                SomeIncludes(item.labels, valueLower)
          [] fieldLower \in {"type", "issuetype", "issue-type"} ->
                item.issueType # None /\ includes(toLowerCase(item.issueType[1]), valueLower)
          [] fieldLower \in {"repo", "repository"} ->
                item.repository # None /\ includes(toLowerCase(item.repository[1]), valueLower)
          [] fieldLower = "project" ->
                includes(toLowerCase(item.projectTitle), valueLower)
          [] fieldLower = "state" ->
                LowerOf(item.state) = Some(valueLower)
          [] OTHER ->
                CustomFieldKeeps(item, field, valueLower)

\* workCommand: the test of one slice on one item (no repo field).
WorkSliceKeeps(item, field, value) ==
    LET fieldLower == toLowerCase(field)
        valueLower == toLowerCase(value)
    IN  CASE fieldLower \in {"assignee", "user"} ->
                SomeIncludes(item.assignees, valueLower)
          [] fieldLower = "label" ->
                SomeIncludes(item.labels, valueLower)
          [] fieldLower \in {"type", "issuetype", "issue-type"} ->
                item.issueType # None /\ includes(toLowerCase(item.issueType[1]), valueLower)
          [] fieldLower = "state" ->
                LowerOf(item.state) = Some(valueLower)
          [] fieldLower = "project" ->
                includes(toLowerCase(item.projectTitle), valueLower)
          [] OTHER ->
                CustomFieldKeeps(item, field, valueLower)

\* The loop over the slices, each filtering what the one before it kept.
RECURSIVE PlanSliced(_, _)
PlanSliced(list, slices) ==
    IF slices = <<>> THEN list
    ELSE LET s == Head(slices)
         IN  IF SliceSkipped(s) THEN PlanSliced(SkippedSliceLeaves(list), Tail(slices))
             ELSE PlanSliced(
                    filter(list, [i \in 1 .. Len(list) |->
                                    PlanSliceKeeps(list[i], SliceField(s), SliceValue(s)[1])]),
                    Tail(slices))

RECURSIVE WorkSliced(_, _)
WorkSliced(list, slices) ==
    IF slices = <<>> THEN list
    ELSE LET s == Head(slices)
         IN  IF SliceSkipped(s) THEN WorkSliced(SkippedSliceLeaves(list), Tail(slices))
             ELSE WorkSliced(
                    filter(list, [i \in 1 .. Len(list) |->
                                    WorkSliceKeeps(list[i], SliceField(s), SliceValue(s)[1])]),
                    Tail(slices))

(***************************************************************************)
(* applyViewFilter: the filter expression of a project view.               *)
(***************************************************************************)
\* The length of the longest run of \w, of [^"] and of \S from position i.
RECURSIVE WordRun(_, _)
WordRun(s, i) ==
    IF i <= Len(s) /\ charAt(s, i) \in WordChars THEN 1 + WordRun(s, i + 1) ELSE 0

RECURSIVE NonQuoteRun(_, _)
NonQuoteRun(s, i) ==
    IF i <= Len(s) /\ charAt(s, i) # "\"" THEN 1 + NonQuoteRun(s, i + 1) ELSE 0

RECURSIVE NonSpaceRun(_, _)
NonSpaceRun(s, i) ==
    IF i <= Len(s) /\ charAt(s, i) # " " THEN 1 + NonSpaceRun(s, i + 1) ELSE 0

\* /(-?\w+):"([^"]+)"|(-?\w+):(\S+)/ tried at position i: the position of
\* the last character of the match, 0 when there is none.
MatchAt(s, i) ==
    LET j == IF charAt(s, i) = "-" THEN i + 1 ELSE i
        w == WordRun(s, j)
        c == j + w
        q == NonQuoteRun(s, c + 2)
        n == NonSpaceRun(s, c + 1)
    IN  IF w = 0 \/ c > Len(s) \/ charAt(s, c) # ":" THEN 0
        ELSE IF /\ c + 1 <= Len(s) /\ charAt(s, c + 1) = "\""
                /\ q > 0
                /\ c + 2 + q <= Len(s) /\ charAt(s, c + 2 + q) = "\""
        THEN c + 2 + q
        ELSE IF n = 0 THEN 0 ELSE c + n

\* filterExpr.match(/.../g) || []: the matches from left to right, each
\* search starting after the match before it.
RECURSIVE Tokens(_, _)
Tokens(s, i) ==
    IF i > Len(s) THEN <<>>
    ELSE LET e == MatchAt(s, i)
         IN  IF e = 0 THEN Tokens(s, i + 1)
             ELSE <<SubSeq(s, i, e)>> \o Tokens(s, e + 1)

\* valuesStr.split(',') with each value trimmed and @me expanded.
ViewValues(valuesStr, username) ==
    LET parts == split(valuesStr, ",")
    IN  [i \in 1 .. Len(parts) |->
            IF trim(parts[i]) = "@me" THEN username ELSE trim(parts[i])]

\* The switch on the field: whether the item matches one of the values.
ViewMatches(item, field, values) ==
    CASE field = "status" ->
            \E i \in 1 .. Len(values) : LowerOf(item.status) = Some(toLowerCase(values[i]))
      [] field \in {"assignee", "assignees"} ->
            \E i \in 1 .. Len(values) : SomeEquals(item.assignees, toLowerCase(values[i]))
      [] field \in {"label", "labels"} ->
            \E i \in 1 .. Len(values) : SomeIncludes(item.labels, toLowerCase(values[i]))
      [] field = "type" ->
            \E i \in 1 .. Len(values) : LowerOf(item.issueType) = Some(toLowerCase(values[i]))
      [] field \in {"repo", "repository"} ->
            /\ item.repository # None
            /\ \E i \in 1 .. Len(values) :
                    includes(toLowerCase(item.repository[1]), toLowerCase(values[i]))
      [] OTHER ->
            LET fieldValue == OrElse(FieldValue(item.fields, field),
                                     FieldValueIgnoringCase(item.fields, field))
            IN  /\ Truthy(fieldValue)
                /\ \E i \in 1 .. Len(values) :
                        includes(toLowerCase(fieldValue[1]), toLowerCase(values[i]))

\* A token test that takes no notice of the '-' before the field.
ViewTokenKeepsUnsigned(item, token, username) ==
    LET cleanToken == IF startsWith(token, "-") THEN sliceFrom(token, 2) ELSE token
        colonIdx == indexOf(cleanToken, ":")
        field == toLowerCase(SubSeq(cleanToken, 1, colonIdx - 1))
        rest == sliceFrom(cleanToken, colonIdx + 1)
        valuesStr == IF startsWith(rest, "\"") /\ endsWith(rest, "\"")
                     THEN SubSeq(rest, 2, Len(rest) - 1)
                     ELSE rest
    IN  ViewMatches(item, field, ViewValues(valuesStr, username))

\* The test of one token on one item.
ViewTokenKeeps(item, token, username) ==
    LET negated == startsWith(token, "-")
        cleanToken == IF negated THEN sliceFrom(token, 2) ELSE token
        colonIdx == indexOf(cleanToken, ":")
        field == toLowerCase(SubSeq(cleanToken, 1, colonIdx - 1))
        rest == sliceFrom(cleanToken, colonIdx + 1)
        valuesStr == IF startsWith(rest, "\"") /\ endsWith(rest, "\"")
                     THEN SubSeq(rest, 2, Len(rest) - 1)
                     ELSE rest
        matches == ViewMatches(item, field, ViewValues(valuesStr, username))
    IN  IF negated THEN ~matches ELSE matches

RECURSIVE ViewFiltered(_, _, _)
ViewFiltered(list, tokens, username) ==
    IF tokens = <<>> THEN list
    ELSE ViewFiltered(
            IF indexOf(Head(tokens), ":") = 0 THEN list
            ELSE filter(list, [i \in 1 .. Len(list) |->
                                 ViewTokenKeeps(list[i], Head(tokens), username)]),
            Tail(tokens), username)

applyViewFilter(list, filterExpr, username) ==
    IF trim(filterExpr) = "" THEN list
    ELSE ViewFiltered(list, Tokens(filterExpr, 1), username)

(***************************************************************************)
(* The filters of planCommand and workCommand.                             *)
(***************************************************************************)
\* api.username
Username == "alice"

\* The target projects, <<id, title>>, and their views; boardFilter is the
\* filter expression of the view Board (null when it has none).
TargetProjects == <<<<"P1", "Roadmap">>, <<"P2", "Sprint">>>>

ProjectViews(projectId, boardFilter) ==
    IF projectId = "P1" THEN <<[name |-> "Board", filter |-> boardFilter]>> ELSE <<>>

\* views.find(v => v.name.toLowerCase() === options.view.toLowerCase())
ViewOf(projectId, name, boardFilter) ==
    LET Is(v) == toLowerCase(v.name) = toLowerCase(name)
    IN  First(SelectSeq(ProjectViews(projectId, boardFilter), Is))

\* The first target project that has the view.
ViewProject(name, boardFilter) ==
    LET Has(p) == ViewOf(p[1], name, boardFilter) # None
    IN  First(SelectSeq(TargetProjects, Has))

\* [...new Set(options.slice)]: the first occurrence of each slice.
RECURSIVE Unique(_)
Unique(slices) ==
    IF slices = <<>> THEN <<>>
    ELSE LET front == Unique(SubSeq(slices, 1, Len(slices) - 1))
             last == slices[Len(slices)]
         IN  IF \E i \in 1 .. Len(front) : front[i] = last THEN front
             ELSE Append(front, last)

\* --view: the view's filter, then the items of the view's project.
PlanViewed(list, project, opts) ==
    LET view == ViewOf(project[1], opts.view[1], opts.boardFilter)[1]
        passed == IF Truthy(view.filter)
                  THEN applyViewFilter(list, view.filter[1], Username)
                  ELSE list
    IN  filter(passed, [i \in 1 .. Len(passed) |-> passed[i].projectId = project[1]])

Mine(list) ==
    filter(list, [i \in 1 .. Len(list) |->
                    \E k \in 1 .. Len(list[i].assignees) : list[i].assignees[k] = Username])

Unassigned(list) ==
    filter(list, [i \in 1 .. Len(list) |-> list[i].assignees = <<>>])

\* --status of plan: one of the statuses, whatever the case.
PlanStatus(list, statusList) ==
    filter(list, [i \in 1 .. Len(list) |->
                    /\ Truthy(list[i].status)
                    /\ \E k \in 1 .. Len(statusList) :
                            toLowerCase(statusList[k]) = toLowerCase(list[i].status[1])])

\* planCommand, from "Apply filters" to the sort: exited when the view is
\* not found (process.exit(1)), else the items kept.
PlanFiltered(list, opts) ==
    LET project == IF opts.view = None THEN None
                   ELSE ViewProject(opts.view[1], opts.boardFilter)
        viewed == IF opts.view = None \/ project = None THEN list
                  ELSE PlanViewed(list, project[1], opts)
        mine == IF opts.mine THEN Mine(viewed) ELSE viewed
        unassigned == IF opts.unassigned THEN Unassigned(mine) ELSE mine
        status == IF opts.status # <<>> THEN PlanStatus(unassigned, opts.status)
                  ELSE unassigned
    IN  IF opts.view # None /\ project = None
        THEN [exited |-> TRUE, items |-> <<>>]
        ELSE [exited |-> FALSE, items |-> PlanSliced(status, Unique(opts.slice))]

\* --status of work: the status, whatever the case.
WorkStatus(list, status) ==
    filter(list, [i \in 1 .. Len(list) |-> LowerOf(list[i].status) = Some(toLowerCase(status))])

\* --hide-done
HideDone(list) ==
    filter(list, [i \in 1 .. Len(list) |->
                    (IF list[i].status = None THEN "" ELSE list[i].status[1])
                        \notin {"Done", "Closed", "Completed"}])

\* workCommand, from "Filter items" to the empty-list message.
WorkFiltered(list, opts) ==
    LET mine == IF ~opts.all THEN Mine(list) ELSE list
        status == IF Truthy(opts.status) THEN WorkStatus(mine, opts.status[1]) ELSE mine
        open == IF opts.hideDone THEN HideDone(status) ELSE status
    IN  [exited |-> FALSE, items |-> WorkSliced(open, opts.slice \o opts.filter)]

Filtered(list, opts) ==
    IF opts.cmd = "plan" THEN PlanFiltered(list, opts) ELSE WorkFiltered(list, opts)

(***************************************************************************)
(* SpecFilter: a view command filters a list of items, and is then given   *)
(* what it kept.                                                           *)
(***************************************************************************)
MaxItems == 2

MaxSlices == 2

SeqsUpTo(S, n) == UNION {[1 .. k -> S] : k \in 0 .. n}

ItemSamples ==
    { ProjectItem(1, <<"alice">>, <<"bug">>, Some("Bug"), Some("open"), Some("r1"),
                  TargetProjects[1], << <<"Status", "In Progress">>, <<"Priority", "High">> >>),
      ProjectItem(2, <<>>, <<>>, None, None, None, TargetProjects[2], <<>>),
      ProjectItem(3, <<"bob", "Alice">>, <<"Bugfix", "docs">>, Some("Feature"), Some("closed"),
                  Some("r2"), TargetProjects[1],
                  << <<"priority", "low">>, <<"Status", "Done">> >>) }

SliceSamples == {"label=bug", "Priority=HIGH", "label", "=bug", "state="}

ViewSamples ==
    { [view |-> None, boardFilter |-> None],
      [view |-> Some("nope"), boardFilter |-> None],
      [view |-> Some("board"), boardFilter |-> None],
      [view |-> Some("board"),
       boardFilter |-> Some("status:\"In Progress\",done -label:docs")],
      [view |-> Some("BOARD"),
       boardFilter |-> Some("no colon assignee:@me,bob priority:hi")] }

PlanOptions ==
    { [cmd |-> "plan", view |-> v.view, boardFilter |-> v.boardFilter, mine |-> m,
       unassigned |-> u, status |-> st, slice |-> sl] :
        v \in ViewSamples, m \in BOOLEAN, u \in BOOLEAN,
        st \in {<<>>, <<"Done", "in progress">>},
        sl \in SeqsUpTo(SliceSamples, MaxSlices) }

WorkOptions ==
    { [cmd |-> "work", all |-> a, status |-> st, hideDone |-> h, slice |-> sl, filter |-> f] :
        a \in BOOLEAN, st \in {None, Some("DONE")}, h \in BOOLEAN,
        sl \in SeqsUpTo(SliceSamples, MaxSlices), f \in {<<>>, <<"Priority=l">>} }

InitFilter ==
    /\ file = StoreFile("missing", <<>>)
    /\ prevFile = file
    /\ lastOp = NoOp
    /\ calls = NoCalls
    /\ labels = {}
    /\ labelDefined = {}
    /\ currentBranch = MainBranch
    /\ scope = "repo"
    /\ failures = 0
    /\ run = [p \in Sessions |-> IdleRun]
    /\ input \in SeqsUpTo(ItemSamples, MaxItems)
    /\ items = input
    /\ options \in PlanOptions \cup WorkOptions
    /\ shown = None
    /\ fedBack = FALSE

PlanFilters ==
    /\ options.cmd = "plan"
    /\ shown = None
    /\ shown' = Some(PlanFiltered(items, options))
    /\ UNCHANGED <<input, items, options, fedBack, linkVars, labelVars>>

WorkFilters ==
    /\ options.cmd = "work"
    /\ shown = None
    /\ shown' = Some(WorkFiltered(items, options))
    /\ UNCHANGED <<input, items, options, fedBack, linkVars, labelVars>>

\* The command is run once more, on the items it kept.
FeedBack ==
    /\ shown # None
    /\ ~shown[1].exited
    /\ ~fedBack
    /\ items' = shown[1].items
    /\ shown' = None
    /\ fedBack' = TRUE
    /\ UNCHANGED <<input, options, linkVars, labelVars>>

NextFilter == PlanFilters \/ WorkFilters \/ FeedBack

SpecFilter == InitFilter /\ [][NextFilter]_vars

(***************************************************************************)
(* Properties of the branch-link store (SpecLinks).                        *)
(***************************************************************************)
StoredLinks == loadLinks(file).elems

PrevLinks == loadLinks(prevFile).elems

HeldLink(links, repo, issueNumber) ==
    \E i \in 1 .. Len(links) : links[i].repo = repo /\ links[i].issueNumber = issueNumber

\* C1: in every state reached by linkBranch and unlinkBranch calls from an
\* empty store, no two stored links of one repository share a branch name or
\* an issue number.
C1_OneLinkPerKey ==
    \A i, j \in 1 .. Len(StoredLinks) :
        (i # j /\ StoredLinks[i].repo = StoredLinks[j].repo)
            => /\ StoredLinks[i].branch # StoredLinks[j].branch
               /\ StoredLinks[i].issueNumber # StoredLinks[j].issueNumber

\* A linkBranch call that superseded two links of its repository at once.
C1_Witness ==
    /\ lastOp.op = "linkBranch"
    /\ Len(LinksOf(PrevLinks, lastOp.repo)) = 2
    /\ Len(LinksOf(StoredLinks, lastOp.repo)) = 1
    /\ \E r \in Repos : r # lastOp.repo /\ Len(LinksOf(StoredLinks, r)) = 2

\* C2: after linkBranch(b, N, repo) has linked, issue N has branch b and branch
\* b has issue N; an issue N1 # N that had branch b before has no branch now,
\* and a branch b1 # b that had issue N before has no issue now.
C2_NewLinkSupersedes ==
    (lastOp.op = "linkBranch" /\ ~lastOp.threw) =>
        LET b == lastOp.branch
            N == lastOp.issue
            repo == lastOp.repo
        IN  /\ BranchOf(StoredLinks, repo, N) = Some(b)
            /\ IssueOf(StoredLinks, repo, b) = Some(BranchLink(b, N, repo))
            /\ \A N1 \in Issues \ {N} :
                   BranchOf(PrevLinks, repo, N1) = Some(b)
                       => BranchOf(StoredLinks, repo, N1) = None
            /\ \A b1 \in Branches \ {b} :
                   BranchOf(PrevLinks, repo, N) = Some(b1)
                       => IssueOf(StoredLinks, repo, b1) = None

\* linkBranch(b, N2, repo) on a store where b was linked to another issue N1.
C2_Witness ==
    /\ lastOp.op = "linkBranch"
    /\ ~lastOp.threw
    /\ \E N1 \in Issues \ {lastOp.issue} :
           /\ BranchOf(PrevLinks, lastOp.repo, N1) = Some(lastOp.branch)
           /\ BranchOf(StoredLinks, lastOp.repo, N1) = None

\* C3: unlinkBranch(repo, N) returns true exactly when the store held a link
\* of (repo, N); after a true return issue N has no branch; on a false return
\* nothing is written and the file is what it was.
C3_UnlinkReturn ==
    (lastOp.op = "unlinkBranch" /\ ~lastOp.threw) =>
        /\ lastOp.ret = Some(HeldLink(PrevLinks, lastOp.repo, lastOp.issue))
        /\ lastOp.ret = Some(TRUE)
               => BranchOf(StoredLinks, lastOp.repo, lastOp.issue) = None
        /\ lastOp.ret = Some(FALSE) => (~lastOp.wrote /\ file = prevFile)

\* An unlinkBranch that removed one link out of two.
C3_Witness ==
    /\ lastOp.op = "unlinkBranch"
    /\ lastOp.ret = Some(TRUE)
    /\ Len(PrevLinks) = 2
    /\ Len(StoredLinks) = 1

\* What an operation does on the empty link set.
OnEmptyStore(op) ==
    CASE op.op = "linkBranch" ->
             /\ file = saveLinks(<<BranchLink(op.branch, op.issue, op.repo)>>)
      [] op.op \in {"unlinkBranch", "unlinkBranchCommand"} ->
             /\ op.ret = Some(FALSE)
             /\ file = prevFile
      [] op.op \in {"getBranchForIssue", "getIssueForBranch"} ->
             /\ op.ret = None
             /\ file = prevFile
      [] op.op = "getAllLinksForRepo" ->
             /\ op.ret = <<>>
             /\ file = prevFile
      [] OTHER -> TRUE

\* C4: on a store file that is missing, unreadable, no JSON or no JSON array
\* of links, no linker operation throws and each does what it does on the
\* empty link set.
C4_CorruptStoreIsEmpty ==
    (lastOp.op # "none" /\ prevFile.kind # "links") =>
        (~lastOp.threw /\ OnEmptyStore(lastOp))

\* The part of C4 the code keeps: a missing, unreadable or unparsable file.
C4_UnparsableStoreIsEmpty ==
    (lastOp.op # "none" /\ prevFile.kind \in {"missing", "unreadable", "invalidJSON"}) =>
        (~lastOp.threw /\ OnEmptyStore(lastOp))

(***************************************************************************)
(* Claims about the label reconciliation.                                  *)
(***************************************************************************)
\* The positions of the run's log that record the call.
Calls(r, call) == {i \in 1 .. Len(r.log) : r.log[i][1] = call}

\* Every API call of the run returned true.
AllSucceeded(r) == \A i \in 1 .. Len(r.log) : r.log[i][4]

\* The run has reconciled the label for a target issue and has returned.
Reconciled(r) ==
    /\ r.pc = "done"
    /\ r.outcome = "returned"
    /\ r.queried
    /\ r.target # 0

\* C5: under repo scope and with no failing API call, once a reconciliation
\* for target issue N has returned, the issues of the repository that bear
\* the label are exactly {N}, whatever the holders were before, more than
\* ten of them included.
C5_RepoScopeExactlyTarget ==
    (Reconciled(run[1]) /\ scope = "repo" /\ AllSucceeded(run[1]))
        => Holders(CwdRepo) = {run[1].target}

\* C6: under project scope and with no failing API call, once link-branch,
\* switch, start or sync has reconciled the label for its target and has
\* returned, no issue of any repository but the target bears the label.
C6_ProjectScopeAtMostTarget ==
    (Reconciled(run[1]) /\ scope = "project" /\ AllSucceeded(run[1]))
        => labels \subseteq {<<CwdRepo, run[1].target>>}

\* C7: when a removal of the label from another holder failed during a
\* reconciliation that has returned, every holder to remove has had its
\* removal attempted and, if the target was to be labelled, the add was
\* attempted.
C7_RemovalFailureStopsNothing ==
    LET r == run[1]
    IN  (/\ r.pc = "done"
         /\ r.outcome = "returned"
         /\ r.queried
         /\ \E i \in Calls(r, "removeLabelFromIssue") : ~r.log[i][4])
        => /\ \A k \in 1 .. Len(r.toRemove) :
                \E i \in Calls(r, "removeLabelFromIssue") :
                    <<r.log[i][2], r.log[i][3]>> = r.toRemove[k]
           /\ (r.cmd # "sync" \/ r.needsAdd) =>
                \E i \in Calls(r, "addLabelToIssue") :
                    <<r.log[i][2], r.log[i][3]>> = <<CwdRepo, r.target>>

\* A reconciliation has returned whose first removal failed, whose second
\* removal was made after it, and whose add was made after both.
C7_Witness ==
    LET r == run[1]
    IN  /\ r.pc = "done"
        /\ r.outcome = "returned"
        /\ Len(r.toRemove) >= 2
        /\ \E i, j, k \in 1 .. Len(r.log) :
            /\ i < j /\ j < k
            /\ r.log[i][1] = "removeLabelFromIssue" /\ ~r.log[i][4]
            /\ r.log[j][1] = "removeLabelFromIssue" /\ r.log[j][4]
            /\ r.log[k][1] = "addLabelToIssue" /\ r.log[k][4]
        /\ <<CwdRepo, r.target>> \in labels

\* C8: whenever switchCommand for issue N has returned without a failing
\* API call, issue N bears the label and no other issue of the repository
\* does, also when N's branch was checked out before the command ran.
C8_SwitchLeavesTargetLabelled ==
    LET r == run[1]
    IN  (r.cmd = "switch" /\ r.pc = "done" /\ r.outcome = "returned" /\ AllSucceeded(r))
        => Holders(CwdRepo) = {r.target}

(***************************************************************************)
(* Properties of the filters (SpecFilter).                                 *)
(***************************************************************************)
\* C9: filtering is idempotent: the plan or work filters, applied with the
\* same options to the list they kept, keep that whole list.
C9_FilterIdempotent ==
    (fedBack /\ shown # None) => (~shown[1].exited /\ shown[1].items = items)

\* The plan filters, with a view, a status and a slice that is applied,
\* kept some but not all of the items, and kept the same when run again.
C9_Witness ==
    /\ fedBack
    /\ shown # None
    /\ shown[1].items = items
    /\ items # <<>>
    /\ Len(items) < Len(input)
    /\ options.cmd = "plan"
    /\ Truthy(options.boardFilter)
    /\ options.status # <<>>
    /\ \E i \in 1 .. Len(options.slice) : ~SliceSkipped(options.slice[i])

\* A slice that is no field=value: it has no '=', nothing before its first
\* '=' or nothing after it.
Unparsable(s) == indexOf(s, "=") \in {0, 1, Len(s)}

Parsable(slices) ==
    LET Ok(s) == ~Unparsable(s) IN SelectSeq(slices, Ok)

\* C10: what the filters keep is what they keep when the slices that are no
\* field=value are left out of the options: such a slice is skipped and the
\* other slices are applied.
C10_UnparsableSliceSkipped ==
    shown # None =>
        shown[1] = Filtered(items, [options EXCEPT !.slice = Parsable(options.slice)])

\* A slice that is no field=value came before a slice that was applied and
\* that alone removed an item.
C10_Witness ==
    /\ shown # None
    /\ options.cmd = "plan"
    /\ options.view = None /\ ~options.mine /\ ~options.unassigned /\ options.status = <<>>
    /\ Len(options.slice) = 2
    /\ Unparsable(options.slice[1])
    /\ ~Unparsable(options.slice[2])
    /\ shown[1].items # <<>>
    /\ Len(shown[1].items) < Len(items)

(***************************************************************************)
(* SpecSlices: the filters with slices alone, on every built-in field and  *)
(* on a custom field, the values being parts of what the items hold.       *)
(***************************************************************************)
SliceProbes ==
    {"label=BU", "assignee=ali", "repo=R1", "project=road", "Priority=hi",
     "status=prog", "type=feat", "state=open", "state=ope"}

SliceOptions ==
    { [cmd |-> "plan", view |-> None, boardFilter |-> None, mine |-> FALSE,
       unassigned |-> FALSE, status |-> <<>>, slice |-> sl] :
        sl \in SeqsUpTo(SliceProbes, MaxSlices) }
    \cup
    { [cmd |-> "work", all |-> TRUE, status |-> None, hideDone |-> FALSE,
       slice |-> sl, filter |-> <<>>] :
        sl \in SeqsUpTo(SliceProbes, MaxSlices) }

InitSlices ==
    /\ file = StoreFile("missing", <<>>)
    /\ prevFile = file
    /\ lastOp = NoOp
    /\ calls = NoCalls
    /\ labels = {}
    /\ labelDefined = {}
    /\ currentBranch = MainBranch
    /\ scope = "repo"
    /\ failures = 0
    /\ run = [p \in Sessions |-> IdleRun]
    /\ input \in SeqsUpTo(ItemSamples, MaxItems)
    /\ items = input
    /\ options \in SliceOptions
    /\ shown = None
    /\ fedBack = FALSE

NextSlices == PlanFilters \/ WorkFilters

SpecSlices == InitSlices /\ [][NextSlices]_vars

\* A slice's match as the specification words it: containment, whatever the
\* case, for label, assignee, repo, project and custom fields; equality,
\* whatever the case, for status, type and state.
SpecSliceMatches(item, field, value) ==
    LET fieldLower == toLowerCase(field)
        valueLower == toLowerCase(value)
        custom == FieldValueIgnoringCase(item.fields, fieldLower)
    IN  CASE fieldLower = "label" -> SomeIncludes(item.labels, valueLower)
          [] fieldLower = "assignee" -> SomeIncludes(item.assignees, valueLower)
          [] fieldLower = "repo" ->
                item.repository # None /\ includes(toLowerCase(item.repository[1]), valueLower)
          [] fieldLower = "project" -> includes(toLowerCase(item.projectTitle), valueLower)
          [] fieldLower = "status" -> LowerOf(item.status) = Some(valueLower)
          [] fieldLower = "type" -> LowerOf(item.issueType) = Some(valueLower)
          [] fieldLower = "state" -> LowerOf(item.state) = Some(valueLower)
          [] OTHER -> custom # None /\ includes(toLowerCase(custom[1]), valueLower)

SpecSlicesKeep(item, slices) ==
    \A k \in 1 .. Len(slices) :
        SpecSliceMatches(item, SliceField(slices[k]), SliceValue(slices[k])[1])

\* C11: the items the slices keep are those that match every slice, a match
\* being containment for label, assignee, repo, project and custom fields
\* and equality for status, type and state, whatever the case.
C11_SliceMatching ==
    shown # None =>
        shown[1].items =
            filter(items, [i \in 1 .. Len(items) |-> SpecSlicesKeep(items[i], options.slice)])

(***************************************************************************)
(* SpecView: applyViewFilter on expressions written from tokens.  A token  *)
(* is [negated, field, values]; its text is -field:v1,v2, the values in    *)
(* quotes when one of them holds a space.                                  *)
(***************************************************************************)
MaxTokens == 2

RECURSIVE join(_, _)
join(parts, sep) ==
    IF parts = <<>> THEN ""
    ELSE IF Len(parts) = 1 THEN parts[1]
    ELSE parts[1] \o sep \o join(Tail(parts), sep)

TokenText(t) ==
    LET text == join(t.values, ",")
    IN  (IF t.negated THEN "-" ELSE "") \o t.field \o ":"
            \o (IF includes(text, " ") THEN "\"" \o text \o "\"" ELSE text)

ExprText(tokens) == join([k \in 1 .. Len(tokens) |-> TokenText(tokens[k])], " ")

ViewOptions(tokens) == [cmd |-> "view", tokens |-> tokens, filterExpr |-> ExprText(tokens)]

BugItem ==
    ProjectItem(1, <<"alice">>, <<"bug">>, Some("Bug"), Some("open"), Some("r1"),
                TargetProjects[1], << <<"Status", "In Progress">>, <<"Priority", "High">> >>)

FeatureItem ==
    ProjectItem(2, <<>>, <<"feature">>, None, None, None, TargetProjects[1], <<>>)

BugFeatureItem ==
    ProjectItem(3, <<"bob">>, <<"bug", "feature">>, Some("Feature"), Some("closed"), Some("r2"),
                TargetProjects[1], << <<"priority", "low">>, <<"Status", "Todo">> >>)

ViewItemLists ==
    SeqsUpTo({BugItem, FeatureItem, BugFeatureItem}, MaxItems)
        \cup {<<BugItem, FeatureItem, BugFeatureItem>>}

TokenSamples ==
    { [negated |-> n, field |-> t[1], values |-> t[2]] :
        n \in BOOLEAN,
        t \in { <<"label", <<"bug">> >>, <<"label", <<"feature">> >>,
                <<"Labels", <<"docs", "FEAT">> >>, <<"status", <<"in progress", "done">> >>,
                <<"assignee", <<"@me">> >>, <<"Priority", <<"hi">> >>,
                <<"milestone", <<"v1">> >> } }

\* The field of a token, as applyViewFilter reads it.
ViewTokenField(token) ==
    LET cleanToken == IF startsWith(token, "-") THEN sliceFrom(token, 2) ELSE token
    IN  toLowerCase(SubSeq(cleanToken, 1, indexOf(cleanToken, ":") - 1))

\* The cases of the switch on the field.
BuiltInViewFields ==
    {"status", "assignee", "assignees", "label", "labels", "type", "repo", "repository"}

\* item.fields is an object literal: a name it does not hold itself is looked
\* up in Object.prototype, where these names hold a function or an object.
ObjectPrototypeKeys ==
    {"constructor", "__proto__", "toString", "toLocaleString", "valueOf",
     "hasOwnProperty", "isPrototypeOf", "propertyIsEnumerable"}

Inherits(fields, key) == key \in ObjectPrototypeKeys /\ FieldValue(fields, key) = None

\* Whether applyViewFilter throws: in the default branch fieldValue is then
\* no string, and fieldValue.toLowerCase() is a TypeError.
RECURSIVE ViewThrows(_, _, _)
ViewThrows(list, tokens, username) ==
    IF tokens = <<>> THEN FALSE
    ELSE LET field == ViewTokenField(Head(tokens))
         IN  IF /\ field \notin BuiltInViewFields
                /\ \E i \in 1 .. Len(list) : Inherits(list[i].fields, field)
             THEN TRUE
             ELSE ViewThrows(
                    filter(list, [i \in 1 .. Len(list) |->
                                    ViewTokenKeeps(list[i], Head(tokens), username)]),
                    Tail(tokens), username)

InitView ==
    /\ file = StoreFile("missing", <<>>)
    /\ prevFile = file
    /\ lastOp = NoOp
    /\ calls = NoCalls
    /\ labels = {}
    /\ labelDefined = {}
    /\ currentBranch = MainBranch
    /\ scope = "repo"
    /\ failures = 0
    /\ run = [p \in Sessions |-> IdleRun]
    /\ input \in ViewItemLists
    /\ items = input
    /\ options \in {ViewOptions(ts) : ts \in SeqsUpTo(TokenSamples, MaxTokens)}
    /\ shown = None
    /\ fedBack = FALSE

ApplyViewFilter ==
    /\ options.cmd = "view"
    /\ shown = None
    /\ LET threw == /\ trim(options.filterExpr) # ""
                    /\ ViewThrows(items, Tokens(options.filterExpr, 1), Username)
       IN  shown' = Some([exited |-> FALSE, threw |-> threw,
                          items |-> IF threw THEN <<>>
                                    ELSE applyViewFilter(items, options.filterExpr, Username)])
    /\ UNCHANGED <<input, items, options, fedBack, linkVars, labelVars>>

NextView == ApplyViewFilter

SpecView == InitView /\ [][NextView]_vars

\* Whether one value of a token matches the item's field.
ValueMatches(item, field, v) ==
    ViewMatches(item, toLowerCase(field), <<IF v = "@me" THEN Username ELSE v>>)

\* A token passes: one of its values matches, or none if it is negated.
TokenPasses(item, t) ==
    IF t.negated
    THEN \A k \in 1 .. Len(t.values) : ~ValueMatches(item, t.field, t.values[k])
    ELSE \E k \in 1 .. Len(t.values) : ValueMatches(item, t.field, t.values[k])

\* C12: the view filter keeps the items that pass every token, a token
\* passing when one of its comma-separated values matches the item's field
\* and a token with '-' passing when none does.
C12_TokensAndValuesOr ==
    (shown # None /\ options.cmd = "view") =>
        shown[1].items =
            filter(items, [i \in 1 .. Len(items) |->
                             \A k \in 1 .. Len(options.tokens) :
                                TokenPasses(items[i], options.tokens[k])])

\* Of the items labelled [bug], [feature] and [bug, feature], the expression
\* label:bug -label:feature has kept the [bug] item alone.
C12_Witness ==
    /\ shown # None
    /\ items = <<BugItem, FeatureItem, BugFeatureItem>>
    /\ options.filterExpr = "label:bug -label:feature"
    /\ shown[1].items = <<BugItem>>

(***************************************************************************)
(* SpecViewFields: applyViewFilter on tokens whose field is no built-in    *)
(* field: a custom field some items hold, and names no item holds.         *)
(***************************************************************************)
FieldTokenSamples ==
    { [negated |-> n, field |-> t[1], values |-> t[2]] :
        n \in BOOLEAN,
        t \in { <<"Priority", <<"hi", "low">> >>, <<"milestone", <<"v1">> >>,
                <<"sprint", <<"", "1">> >>, <<"constructor", <<"x">> >>,
                <<"label", <<"bug">> >> } }

InitViewFields ==
    /\ file = StoreFile("missing", <<>>)
    /\ prevFile = file
    /\ lastOp = NoOp
    /\ calls = NoCalls
    /\ labels = {}
    /\ labelDefined = {}
    /\ currentBranch = MainBranch
    /\ scope = "repo"
    /\ failures = 0
    /\ run = [p \in Sessions |-> IdleRun]
    /\ input \in ViewItemLists
    /\ items = input
    /\ options \in {ViewOptions(ts) : ts \in SeqsUpTo(FieldTokenSamples, MaxTokens)}
    /\ shown = None
    /\ fedBack = FALSE

SpecViewFields == InitViewFields /\ [][NextView]_vars

\* The token's field is no built-in field and no custom field of the item.
UnknownFor(item, t) ==
    /\ toLowerCase(t.field) \notin BuiltInViewFields
    /\ FieldValueIgnoringCase(item.fields, toLowerCase(t.field)) = None

Kept(item) == \E i \in 1 .. Len(shown[1].items) : shown[1].items[i] = item

\* C13: a token whose field is neither built-in nor a custom field of the
\* item rejects the item when positive and accepts it when negated,
\* whatever its values: an item that meets such a positive token is not
\* kept, and an item that meets only such negated tokens is kept.
C13_UnknownField ==
    (shown # None /\ options.cmd = "view") =>
        \A i \in 1 .. Len(items) :
            /\ (\E k \in 1 .. Len(options.tokens) :
                    /\ UnknownFor(items[i], options.tokens[k])
                    /\ ~options.tokens[k].negated)
                => ~Kept(items[i])
            /\ (\A k \in 1 .. Len(options.tokens) :
                    /\ UnknownFor(items[i], options.tokens[k])
                    /\ options.tokens[k].negated)
                => Kept(items[i])

\* ---------------------------------------------------------------------------
\* Sorting: --sort of the plan and work commands
\* ---------------------------------------------------------------------------

MaxSortItems == 3

\* The options of the project's Status field, in board order.
StatusOptions == <<"Todo", "In Progress", "Done">>

NoStatusIndex == 999

\* Each project has its own Status field: the second project's options.
StatusOptionsOf(projectId) ==
    IF projectId = TargetProjects[2][1] THEN <<"Backlog", "Todo", "Done">> ELSE StatusOptions

\* statusOrderMap.get(status.toLowerCase()) ?? 999, 999 without a status
statusIndex(status, projectId) ==
    IF ~Truthy(status) THEN NoStatusIndex
    ELSE LET opts == StatusOptionsOf(projectId)
             hits == {k \in 1 .. Len(opts) : toLowerCase(opts[k]) = toLowerCase(status[1])}
         IN  IF hits = {} THEN NoStatusIndex ELSE (CHOOSE k \in hits : TRUE) - 1

\* The fields of an item that sorting and grouping read besides those of
\* ProjectItem: number is null for a draft, title and type always hold.
SortableItem(number, title, type, item) ==
    [number |-> number, title |-> title, type |-> type,
     statusIndex |-> statusIndex(item.status, item.projectId)] @@ item

\* Values a sort key resolves to: null, a number or a string.
Num(n) == <<"num", n>>

Str(s) == <<"str", s>>

IsNum(v) == v # None /\ v[1] = "num"

IsStr(v) == v # None /\ v[1] = "str"

\* A nullable string field as a sort value.
StrOrNull(v) == IF v = None THEN None ELSE Str(v[1])

\* A nullable number field as a sort value.
NumOrNull(v) == IF v = None THEN None ELSE Num(v[1])

\* getFieldValue(item, fieldName); plan also reads issue_type and user.
getFieldValue(item, fieldName, cmd) ==
    LET lower == toLowerCase(fieldName)
        custom == OrElse(FieldValue(item.fields, fieldName),
                         FieldValueIgnoringCase(item.fields, lower))
    IN  CASE lower = "number" -> NumOrNull(item.number)
          [] lower = "title" -> Str(item.title)
          [] lower = "status" -> Num(item.statusIndex)
          [] lower = "type" -> Str(item.type)
          [] lower \in {"issuetype", "issue-type"} -> StrOrNull(item.issueType)
          [] lower = "issue_type" /\ cmd = "plan" -> StrOrNull(item.issueType)
          [] lower \in {"assignee", "assignees"} ->
                Str(IF item.assignees # <<>> THEN item.assignees[1] ELSE "")
          [] lower = "user" /\ cmd = "plan" ->
                Str(IF item.assignees # <<>> THEN item.assignees[1] ELSE "")
          [] lower \in {"repo", "repository"} -> StrOrNull(item.repository)
          [] lower \in {"label", "labels"} ->
                Str(IF item.labels # <<>> THEN item.labels[1] ELSE "")
          [] lower = "project" -> Str(item.projectTitle)
          [] OTHER -> StrOrNull(custom)

\* Collation order of the characters the samples use: space, punctuation,
\* digits, letters.
CollationOrder == " _-,@#0123456789abcdefghijklmnopqrstuvwxyz"

\* Primary weight of a character: its place in the collation order, case set aside.
Weight(c) == indexOf(CollationOrder, toLowerCase(c))

\* Comparison of two strings by primary weights, the shorter prefix first.
RECURSIVE primaryCompare(_, _)
primaryCompare(a, b) ==
    IF a = "" /\ b = "" THEN 0
    ELSE IF a = "" THEN -1
    ELSE IF b = "" THEN 1
    ELSE IF Weight(charAt(a, 1)) < Weight(charAt(b, 1)) THEN -1
    ELSE IF Weight(charAt(a, 1)) > Weight(charAt(b, 1)) THEN 1
    ELSE primaryCompare(sliceFrom(a, 2), sliceFrom(b, 2))

\* Comparison of two strings equal but for case: lower case first at the
\* first difference.
RECURSIVE caseCompare(_, _)
caseCompare(a, b) ==
    IF a = "" \/ b = "" THEN 0
    ELSE IF charAt(a, 1) = charAt(b, 1) THEN caseCompare(sliceFrom(a, 2), sliceFrom(b, 2))
    ELSE IF includes(Lowers, charAt(a, 1)) THEN -1 ELSE 1

\* The soft hyphen U+00AD: a character the collation ignores.
SoftHyphen == "­"

\* The string without the characters the collation ignores.
RECURSIVE collated(_)
collated(s) ==
    IF s = "" THEN ""
    ELSE (IF charAt(s, 1) = SoftHyphen THEN "" ELSE charAt(s, 1)) \o collated(sliceFrom(s, 2))

\* a.localeCompare(b): 0 for strings that differ in ignored characters only
localeCompare(a, b) ==
    IF primaryCompare(collated(a), collated(b)) # 0
    THEN primaryCompare(collated(a), collated(b))
    ELSE caseCompare(collated(a), collated(b))

\* Direction reversed: cmp for a key without '-', -cmp for a key with it.
directedSwapped(ascending, cmp) == IF ascending THEN -cmp ELSE cmp

\* ascending ? cmp : -cmp
directed(ascending, cmp) == IF ascending THEN cmp ELSE -cmp

\* One round of the comparator's loop: 0 stands for `continue`.
compareField(a, b, field, cmd) ==
    LET ascending == startsWith(field, "-")
        fieldName == IF ascending THEN sliceFrom(field, 2) ELSE field
        aVal == getFieldValue(a, fieldName, cmd)
        bVal == getFieldValue(b, fieldName, cmd)
    IN  IF aVal = bVal THEN 0
        ELSE IF aVal = None THEN directed(ascending, -1)
        ELSE IF bVal = None THEN directed(ascending, 1)
        ELSE IF IsStr(aVal) /\ IsStr(bVal)
             THEN directed(ascending, localeCompare(aVal[2], bVal[2]))
        ELSE IF IsNum(aVal) /\ IsNum(bVal) /\ aVal[2] < bVal[2] THEN directed(ascending, -1)
        ELSE IF IsNum(aVal) /\ IsNum(bVal) /\ aVal[2] > bVal[2] THEN directed(ascending, 1)
        ELSE 0

\* The comparator: the first sort field that tells the two items apart decides.
RECURSIVE compareItems(_, _, _, _)
compareItems(a, b, sortFields, cmd) ==
    IF sortFields = <<>> THEN 0
    ELSE IF compareField(a, b, Head(sortFields), cmd) # 0
         THEN compareField(a, b, Head(sortFields), cmd)
         ELSE compareItems(a, b, Tail(sortFields), cmd)

\* options.sort.split(',').map(f => f.trim())
RECURSIVE trimAll(_)
trimAll(parts) ==
    IF parts = <<>> THEN <<>> ELSE <<trim(Head(parts))>> \o trimAll(Tail(parts))

sortFieldsOf(sort) == trimAll(split(sort, ","))

\* Insertion that puts x before the items it compares equal to.
insertBeforeEqual(done, x, sortFields, cmd) ==
    LET before == {k \in 1 .. Len(done) : compareItems(done[k], x, sortFields, cmd) < 0}
        p == IF before = {} THEN 0 ELSE CHOOSE k \in before : \A j \in before : j <= k
    IN  SubSeq(done, 1, p) \o <<x>> \o SubSeq(done, p + 1, Len(done))

\* One step of the stable sort: x goes behind the last item that does not
\* compare greater than it.
insert(done, x, sortFields, cmd) ==
    LET before == {k \in 1 .. Len(done) : compareItems(done[k], x, sortFields, cmd) <= 0}
        p == IF before = {} THEN 0 ELSE CHOOSE k \in before : \A j \in before : j <= k
    IN  SubSeq(done, 1, p) \o <<x>> \o SubSeq(done, p + 1, Len(done))

\* filteredItems.sort(comparator): Array.prototype.sort is stable.
RECURSIVE sort(_, _, _)
sort(list, sortFields, cmd) ==
    IF list = <<>> THEN <<>>
    ELSE insert(sort(SubSeq(list, 1, Len(list) - 1), sortFields, cmd),
                list[Len(list)], sortFields, cmd)

\* Sample items: a draft without number and repository, titles that differ
\* by case only, two items of one priority, one item without status.
SortSamples ==
    { SortableItem(Some(1), "beta", "issue",
        ProjectItem(1, <<"bob">>, <<"bug">>, Some("Bug"), Some("open"), Some("r1"),
                    TargetProjects[1], << <<"Status", "Done">>, <<"Priority", "High">> >>)),
      SortableItem(None, "Alpha", "draft",
        ProjectItem(0, <<>>, <<>>, None, None, None,
                    TargetProjects[1], << <<"Status", "Todo">> >>)),
      SortableItem(Some(3), "alpha", "pull_request",
        ProjectItem(3, <<"alice">>, <<"feature">>, None, Some("open"), Some("r2"),
                    TargetProjects[1], << <<"Status", "In Progress">>, <<"Priority", "low">> >>)),
      SortableItem(Some(4), "gamma", "issue",
        ProjectItem(4, <<"alice">>, <<>>, Some("Task"), Some("closed"), Some("r1"),
                    TargetProjects[1], << <<"Priority", "High">> >>)) }

SortItemLists == SeqsUpTo(SortSamples, MaxSortItems) \ {<<>>}

SingleSortKeys ==
    {"status", "number", "title", "repo", "Priority", "assignee", "issuetype", "user"}

SortKeySamples ==
    SingleSortKeys \cup {"-" \o k : k \in SingleSortKeys}
        \cup {"status, -number", "-priority,title", "repo,-status"}

SortOptions == {[cmd |-> c, sort |-> s] : c \in {"plan", "work"}, s \in SortKeySamples}

InitSort ==
    /\ file = StoreFile("missing", <<>>)
    /\ prevFile = file
    /\ lastOp = NoOp
    /\ calls = NoCalls
    /\ labels = {}
    /\ labelDefined = {}
    /\ currentBranch = MainBranch
    /\ scope = "repo"
    /\ failures = 0
    /\ run = [p \in Sessions |-> IdleRun]
    /\ input \in SortItemLists
    /\ items = input
    /\ options \in SortOptions
    /\ shown = None
    /\ fedBack = FALSE

\* plan --sort: the filtered items are sorted in place and shown.
PlanSorts ==
    /\ options.cmd = "plan"
    /\ options.sort # ""
    /\ shown = None
    /\ shown' = Some([exited |-> FALSE,
                      items |-> sort(items, sortFieldsOf(options.sort), "plan")])
    /\ UNCHANGED <<input, items, options, fedBack, linkVars, labelVars>>

\* work --sort: the same comparator; work returns before it on an empty list.
WorkSorts ==
    /\ options.cmd = "work"
    /\ options.sort # ""
    /\ items # <<>>
    /\ shown = None
    /\ shown' = Some([exited |-> FALSE,
                      items |-> sort(items, sortFieldsOf(options.sort), "work")])
    /\ UNCHANGED <<input, items, options, fedBack, linkVars, labelVars>>

NextSort == PlanSorts \/ WorkSorts

SpecSort == InitSort /\ [][NextSort]_vars

\* ---------------------------------------------------------------------------
\* Claims on sorting
\* ---------------------------------------------------------------------------

SortDone == shown # None /\ options.cmd \in {"plan", "work"} /\ "sort" \in DOMAIN options

SortedItems == shown[1].items

SingleKey == options.sort \in SingleSortKeys \cup {"-" \o k : k \in SingleSortKeys}

KeyAscending == startsWith(options.sort, "-")

KeyName == IF KeyAscending THEN sliceFrom(options.sort, 2) ELSE options.sort

\* v comes strictly before w in ascending order: numbers by size, strings by collation.
ValueBefore(v, w) ==
    \/ IsNum(v) /\ IsNum(w) /\ v[2] < w[2]
    \/ IsStr(v) /\ IsStr(w) /\ localeCompare(v[2], w[2]) < 0

Ordinals(list) == [k \in 1 .. Len(list) |-> list[k].statusIndex]

\* C14: a sort key without prefix sorts descending and a key prefixed with '-'
\* sorts ascending: of two items holding values for the key, the one shown later
\* never has the value that the direction puts first. Items of status ordinals
\* [2,0,1] come out as [2,1,0] under 'status' and as [0,1,2] under '-status'.
C14_SortDirection ==
    (SortDone /\ SingleKey) =>
        /\ \A i, j \in 1 .. Len(SortedItems) :
              LET vi == getFieldValue(SortedItems[i], KeyName, options.cmd)
                  vj == getFieldValue(SortedItems[j], KeyName, options.cmd)
              IN  i < j => IF KeyAscending THEN ~ValueBefore(vj, vi)
                                           ELSE ~ValueBefore(vi, vj)
        /\ (Ordinals(input) = <<2, 0, 1>> /\ options.sort = "status")
              => Ordinals(SortedItems) = <<2, 1, 0>>
        /\ (Ordinals(input) = <<2, 0, 1>> /\ options.sort = "-status")
              => Ordinals(SortedItems) = <<0, 1, 2>>

\* C14 witness: items of status ordinals [2,0,1] sorted by 'status' are shown as [2,1,0].
C14_Witness ==
    /\ SortDone
    /\ options.sort = "status"
    /\ Ordinals(input) = <<2, 0, 1>>
    /\ Ordinals(SortedItems) = <<2, 1, 0>>

\* The item holds nothing for the key: no number, status, repository, issue
\* type, assignee or custom field of that name.
Absent(item, name, cmd) ==
    LET lower == toLowerCase(name)
    IN  CASE lower = "number" -> item.number = None
          [] lower = "status" -> item.status = None
          [] lower \in {"repo", "repository"} -> item.repository = None
          [] lower \in {"issuetype", "issue-type"} -> item.issueType = None
          [] lower \in {"assignee", "assignees"} -> item.assignees = <<>>
          [] lower = "user" /\ cmd = "plan" -> item.assignees = <<>>
          [] lower = "title" -> FALSE
          [] OTHER -> ~Truthy(OrElse(FieldValue(item.fields, name),
                                     FieldValueIgnoringCase(item.fields, lower)))

\* C15: for a single sort key, in either direction, an item holding nothing
\* for the key is never shown before an item that holds a value for it.
C15_NullsLast ==
    (SortDone /\ SingleKey) =>
        \A i, j \in 1 .. Len(SortedItems) :
            (i < j) => ~(/\ Absent(SortedItems[i], KeyName, options.cmd)
                         /\ ~Absent(SortedItems[j], KeyName, options.cmd))

\* The two items resolve to equal values on every sort key.
SameKeys(a, b) ==
    \A k \in 1 .. Len(sortFieldsOf(options.sort)) :
        LET field == sortFieldsOf(options.sort)[k]
            name == IF startsWith(field, "-") THEN sliceFrom(field, 2) ELSE field
        IN  getFieldValue(a, name, options.cmd) = getFieldValue(b, name, options.cmd)

\* The items of the list that tie with item a, in the list's order.
Ties(list, a) ==
    LET Tie(b) == SameKeys(a, b)
    IN  SelectSeq(list, Tie)

\* C16: items whose values are equal on every sort key are shown in the
\* relative order they had before the sort.
C16_SortStable ==
    SortDone => \A k \in 1 .. Len(input) :
                    Ties(SortedItems, input[k]) = Ties(input, input[k])

\* C16 witness: a sort that moved items while two different items tied on the key.
C16_Witness ==
    /\ SortDone
    /\ SortedItems # input
    /\ \E i, j \in 1 .. Len(input) :
          i < j /\ input[i] # input[j] /\ SameKeys(input[i], input[j])

\* ---------------------------------------------------------------------------
\* Grouped display: --group of the plan command, the default view of work
\* ---------------------------------------------------------------------------

MaxGroupItems == 3

DefaultTermWidth == 120

\* getFieldDisplayValue(item, fieldName)
getFieldDisplayValue(item, fieldName) ==
    LET lower == toLowerCase(fieldName)
        f(key) == FieldValue(item.fields, key)
        custom == OrElse(f(fieldName), FieldValueIgnoringCase(item.fields, lower))
    IN  CASE lower = "status" -> OrElse(item.status, Some("No Status"))[1]
          [] lower \in {"type", "issuetype", "issue-type"} ->
                OrElse(item.issueType, Some("No Type"))[1]
          [] lower \in {"assignee", "assignees"} ->
                IF Len(item.assignees) > 0 THEN join(item.assignees, ", ") ELSE "Unassigned"
          [] lower = "priority" ->
                OrElse(f("Priority"), OrElse(f("priority"), Some("No Priority")))[1]
          [] lower = "size" ->
                OrElse(f("Size"), OrElse(f("size"), OrElse(f("Estimate"), Some("No Size"))))[1]
          [] lower \in {"label", "labels"} ->
                IF Len(item.labels) > 0 THEN join(item.labels, ", ") ELSE "No Labels"
          [] lower = "project" -> item.projectTitle
          [] lower \in {"repo", "repository"} -> OrElse(item.repository, Some("Unknown"))[1]
          [] OTHER -> OrElse(custom, Some("No " \o fieldName))[1]

\* groupValue of every item, in item order
RECURSIVE groupValues(_, _)
groupValues(list, groupField) ==
    IF list = <<>> THEN <<>>
    ELSE <<getFieldDisplayValue(Head(list), groupField)>> \o groupValues(Tail(list), groupField)

\* groups.get(groupValue): the items of one group, in item order
groupItems(list, groupField, groupValue) ==
    LET In(item) == getFieldDisplayValue(item, groupField) = groupValue
    IN  SelectSeq(list, In)

\* Plain alphabetical order of two group labels.
compareLabelsAlphabetical(a, b) == localeCompare(a, b)

\* The comparator of the groups of a field other than status.
compareLabels(a, b) ==
    LET aIsEmpty == startsWith(a, "No ") \/ a = "Unassigned"
        bIsEmpty == startsWith(b, "No ") \/ b = "Unassigned"
    IN  IF aIsEmpty /\ ~bIsEmpty THEN 1
        ELSE IF ~aIsEmpty /\ bIsEmpty THEN -1
        ELSE localeCompare(a, b)

\* Status order reversed: the greater index first.
compareStatusDescending(aItem, bItem) == bItem.statusIndex - aItem.statusIndex

\* The comparator of the status groups, on the first item of each group.
compareStatus(aItem, bItem) == aItem.statusIndex - bItem.statusIndex

compareGroups(a, b, list, groupField) ==
    IF toLowerCase(groupField) = "status"
    THEN compareStatus(groupItems(list, groupField, a)[1], groupItems(list, groupField, b)[1])
    ELSE compareLabels(a, b)

\* One step of groupOrder.sort, which is stable.
insertGroup(done, g, list, groupField) ==
    LET before == {k \in 1 .. Len(done) : compareGroups(done[k], g, list, groupField) <= 0}
        p == IF before = {} THEN 0 ELSE CHOOSE k \in before : \A j \in before : j <= k
    IN  SubSeq(done, 1, p) \o <<g>> \o SubSeq(done, p + 1, Len(done))

RECURSIVE sortGroups(_, _, _)
sortGroups(order, list, groupField) ==
    IF order = <<>> THEN <<>>
    ELSE insertGroup(sortGroups(SubSeq(order, 1, Len(order) - 1), list, groupField),
                     order[Len(order)], list, groupField)

\* groupOrder after the sort: the labels in order of first appearance, sorted.
groupOrder(list, groupField) == sortGroups(Unique(groupValues(list, groupField)), list, groupField)

\* COLUMN_DEFS
ColumnNames ==
    {"number", "type", "title", "assignees", "status", "priority", "size", "labels",
     "project", "repository"}

DEFAULT_COLUMNS == <<"number", "type", "title", "assignees", "priority", "size", "labels">>

Header(col) ==
    CASE col = "number" -> "#"
      [] col = "type" -> "Type"
      [] col = "title" -> "Title"
      [] col = "assignees" -> "Assignee"
      [] col = "status" -> "Status"
      [] col = "priority" -> "Priority"
      [] col = "size" -> "Size"
      [] col = "labels" -> "Labels"
      [] col = "project" -> "Project"
      [] col = "repository" -> "Repo"

\* def.minWidth || 0
MinWidth(col) == IF col = "number" THEN 5 ELSE IF col = "title" THEN 20 ELSE 0

\* def.maxWidth || 999
MaxWidth(col) == IF col = "title" THEN 60 ELSE 999

RECURSIVE mentions(_)
mentions(assignees) ==
    IF assignees = <<>> THEN <<>> ELSE <<"@" \o Head(assignees)>> \o mentions(Tail(assignees))

\* COLUMN_DEFS[col].getValue(item)
getValue(item, col) ==
    LET f(key) == FieldValue(item.fields, key)
    IN  CASE col = "number" ->
                IF item.number # None /\ item.number[1] # 0
                THEN "#" \o ToString(item.number[1]) ELSE "draft"
          [] col = "type" -> OrElse(item.issueType, Some(""))[1]
          [] col = "title" -> item.title
          [] col = "assignees" -> join(mentions(item.assignees), " ")
          [] col = "status" -> OrElse(item.status, Some(""))[1]
          [] col = "priority" -> OrElse(f("Priority"), OrElse(f("priority"), Some("")))[1]
          [] col = "size" ->
                OrElse(f("Size"), OrElse(f("size"),
                    OrElse(f("Estimate"), OrElse(f("estimate"), Some("")))))[1]
          [] col = "labels" -> join(item.labels, ", ")
          [] col = "project" -> item.projectTitle
          [] col = "repository" -> OrElse(item.repository, Some(""))[1]

\* columnsStr.split(',').map(c => c.trim().toLowerCase()).filter(valid)
parseColumns(columnsStr) ==
    LET parts == split(columnsStr, ",")
        names == [k \in 1 .. Len(parts) |-> toLowerCase(trim(parts[k]))]
        Valid(c) == c \in ColumnNames
    IN  SelectSeq(names, Valid)

\* fieldToColumnMap[lower], None for a field that is no column
fieldToColumn(lower) ==
    CASE lower = "status" -> Some("status")
      [] lower \in {"type", "issuetype", "issue-type"} -> Some("type")
      [] lower \in {"assignee", "assignees"} -> Some("assignees")
      [] lower = "priority" -> Some("priority")
      [] lower = "size" -> Some("size")
      [] lower \in {"label", "labels"} -> Some("labels")
      [] lower = "project" -> Some("project")
      [] lower \in {"repo", "repository"} -> Some("repository")
      [] OTHER -> None

\* The columns of a grouped view: configured or default, without the grouped field.
groupColumns(columnsConfig, groupField) ==
    LET columns == IF Truthy(columnsConfig) THEN parseColumns(columnsConfig[1])
                   ELSE DEFAULT_COLUMNS
        Keep(c) == Some(c) # fieldToColumn(toLowerCase(groupField))
    IN  SelectSeq(columns, Keep)

Max(S) == CHOOSE m \in S : \A x \in S : x <= m

Min(S) == CHOOSE m \in S : \A x \in S : m <= x

\* Math.max(def.minWidth || 0, Math.min(def.maxWidth || 999, maxContent))
columnWidth(list, col) ==
    LET maxContent == Max({Len(Header(col))} \cup
                          {Len(getValue(list[k], col)) : k \in 1 .. Len(list)})
    IN  Max({MinWidth(col), Min({MaxWidth(col), maxContent})})

\* fixedWidth: the widths of the columns other than title, each with 2 of spacing
RECURSIVE fixedWidth(_, _)
fixedWidth(list, columns) ==
    IF columns = <<>> THEN 0
    ELSE (IF Head(columns) = "title" THEN 0 ELSE columnWidth(list, Head(columns)) + 2)
         + fixedWidth(list, Tail(columns))

\* calculateColumnWidths(items, columns), termWidth being process.stdout.columns || 120
calculateColumnWidths(list, columns, termWidth) ==
    [col \in {columns[k] : k \in 1 .. Len(columns)} \cup {"title"} |->
        IF col = "title"
        THEN Max({MinWidth("title"),
                  Min({MaxWidth("title"), termWidth - fixedWidth(list, columns) - 4})})
        ELSE columnWidth(list, col)]

\* displayGroupedView: the groups in display order, each with its items, and
\* the widths every group's table is printed with.
displayGroupedView(list, groupField, columnsConfig, termWidth) ==
    LET order == groupOrder(list, groupField)
        columns == groupColumns(columnsConfig, groupField)
    IN  IF list = <<>> THEN [exited |-> FALSE, groups |-> <<>>, columns |-> <<>>, widths |-> <<>>]
        ELSE [exited |-> FALSE,
              groups |-> [k \in 1 .. Len(order) |->
                             [label |-> order[k],
                              items |-> groupItems(list, groupField, order[k])]],
              columns |-> columns,
              widths |-> calculateColumnWidths(list, columns, termWidth)]

\* Sample items for grouping: the sort samples, an item of an unknown status
\* with two assignees, and an item of the second project.
GroupSamples ==
    SortSamples \cup
    { SortableItem(Some(5), "delta", "issue",
        ProjectItem(5, <<"alice", "bob">>, <<"bug", "feature">>, None, Some("open"), Some("r1"),
                    TargetProjects[1], << <<"Status", "Blocked">> >>)),
      SortableItem(Some(6), "epsilon", "issue",
        ProjectItem(6, <<"bob">>, <<>>, Some("Task"), Some("open"), Some("r2"),
                    TargetProjects[2], << <<"Status", "Todo">>, <<"priority", "Urgent">> >>)) }

GroupItemLists == SeqsUpTo(GroupSamples, MaxGroupItems)

GroupFieldSamples == {"status", "priority", "type", "assignee", "repo", "Sprint"}

ColumnsConfigSamples == {None, Some("number, Title,status,assignees,bogus")}

TermWidthSamples == {80, DefaultTermWidth}

\* plan --group <field>; work groups by options.group || 'status'.
GroupOptions ==
    { [cmd |-> c, group |-> g, columnsConfig |-> cc, termWidth |-> w] :
        c \in {"plan", "work"}, g \in GroupFieldSamples \cup {""},
        cc \in ColumnsConfigSamples, w \in TermWidthSamples }

InitGroup ==
    /\ file = StoreFile("missing", <<>>)
    /\ prevFile = file
    /\ lastOp = NoOp
    /\ calls = NoCalls
    /\ labels = {}
    /\ labelDefined = {}
    /\ currentBranch = MainBranch
    /\ scope = "repo"
    /\ failures = 0
    /\ run = [p \in Sessions |-> IdleRun]
    /\ input \in GroupItemLists
    /\ items = input
    /\ options \in GroupOptions
    /\ shown = None
    /\ fedBack = FALSE

\* plan: the grouped view is shown when --group is given.
PlanGroups ==
    /\ options.cmd = "plan"
    /\ options.group # ""
    /\ shown = None
    /\ shown' = Some(displayGroupedView(items, options.group, options.columnsConfig,
                                        options.termWidth))
    /\ UNCHANGED <<input, items, options, fedBack, linkVars, labelVars>>

\* work: the grouped view is the default, by status without --group; work
\* returns before it on an empty list.
WorkGroups ==
    /\ options.cmd = "work"
    /\ items # <<>>
    /\ shown = None
    /\ shown' = Some(displayGroupedView(items,
                        IF options.group # "" THEN options.group ELSE "status",
                        options.columnsConfig, options.termWidth))
    /\ UNCHANGED <<input, items, options, fedBack, linkVars, labelVars>>

NextGroup == PlanGroups \/ WorkGroups

SpecGroup == InitGroup /\ [][NextGroup]_vars

\* ---------------------------------------------------------------------------
\* Claims on the grouped display
\* ---------------------------------------------------------------------------

GroupDone == shown # None /\ "group" \in DOMAIN options

\* The field the view was grouped by.
GroupField == IF options.group # "" THEN options.group ELSE "status"

Groups == shown[1].groups

Placeholder(label) == startsWith(label, "No ") \/ label = "Unassigned"

\* The item holds no Priority field, whatever the case of the field's name.
NoPriority(item) == ~Truthy(FieldValueIgnoringCase(item.fields, "priority"))

TwoOfThreeWithoutPriority ==
    /\ Len(input) = 3
    /\ Cardinality({k \in 1 .. 3 : NoPriority(input[k])}) = 2

\* C17: grouped by a field other than status, the groups are in alphabetical
\* order of their labels, except that every placeholder group (label starting
\* with 'No ' or equal to 'Unassigned') comes after every other group. Three
\* items of which two hold no Priority, grouped by 'priority', give exactly one
\* group 'No Priority', holding those two, after the named group.
C17_PlaceholderGroupsLast ==
    (GroupDone /\ toLowerCase(GroupField) # "status") =>
        /\ \A i, j \in 1 .. Len(Groups) :
              (i < j) =>
                 /\ ~(Placeholder(Groups[i].label) /\ ~Placeholder(Groups[j].label))
                 /\ (Placeholder(Groups[i].label) = Placeholder(Groups[j].label))
                       => localeCompare(Groups[i].label, Groups[j].label) < 0
        /\ (GroupField = "priority" /\ TwoOfThreeWithoutPriority) =>
              /\ Len(Groups) = 2
              /\ Groups[1].label # "No Priority"
              /\ Groups[2].label = "No Priority"
              /\ Groups[2].items = SelectSeq(input, NoPriority)

\* C17 witness: two of three items hold no Priority, the first of the list
\* among them, and the view grouped by 'priority' ends with their group.
C17_Witness ==
    /\ GroupDone
    /\ GroupField = "priority"
    /\ TwoOfThreeWithoutPriority
    /\ NoPriority(input[1])
    /\ Groups[Len(Groups)].label = "No Priority"
    /\ Len(Groups[Len(Groups)].items) = 2

\* C18: grouped by status, the groups are in ascending order of the status
\* index of their first member, and the 'No Status' group comes after every
\* group of a defined status.
C18_StatusGroupsByIndex ==
    (GroupDone /\ toLowerCase(GroupField) = "status") =>
        \A i, j \in 1 .. Len(Groups) :
            /\ (i < j) => Groups[i].items[1].statusIndex <= Groups[j].items[1].statusIndex
            /\ (/\ Groups[i].label = "No Status"
                /\ Groups[j].items[1].statusIndex < NoStatusIndex) => j < i

\* C18 witness: the list starts with an item without status and a group of a
\* defined status is shown before the 'No Status' group.
C18_Witness ==
    /\ GroupDone
    /\ toLowerCase(GroupField) = "status"
    /\ input # <<>>
    /\ input[1].status = None
    /\ Len(Groups) >= 2
    /\ Groups[1].items[1].statusIndex < NoStatusIndex
    /\ Groups[Len(Groups)].label = "No Status"

\* C19: for every group and every displayed column, the title column
\* included, the width computed from all items is at least the width computed
\* from the group's items alone, at the same terminal width.
C19_SharedWidthsCoverGroups ==
    GroupDone =>
        \A g \in 1 .. Len(Groups) :
            \A c \in DOMAIN shown[1].widths :
                shown[1].widths[c] >=
                    calculateColumnWidths(Groups[g].items, shown[1].columns,
                                          options.termWidth)[c]

\* ---------------------------------------------------------------------------
\* Branch relevance: the branches offered by start for linking
\* ---------------------------------------------------------------------------

MaxBranches == 3

Digits == "0123456789"

\* \s of the samples
Whitespace == {" ", "\t", "\n"}

\* replace(/[^a-z0-9\s]/g, '')
RECURSIVE stripPunctuation(_)
stripPunctuation(s) ==
    IF s = "" THEN ""
    ELSE (IF \/ includes(Lowers, charAt(s, 1))
             \/ includes(Digits, charAt(s, 1))
             \/ charAt(s, 1) \in Whitespace
          THEN charAt(s, 1) ELSE "") \o stripPunctuation(sliceFrom(s, 2))

\* The string from its first character that is no whitespace.
RECURSIVE skipWhitespace(_)
skipWhitespace(s) ==
    IF s # "" /\ charAt(s, 1) \in Whitespace THEN skipWhitespace(sliceFrom(s, 2)) ELSE s

\* split(/\s+/)
RECURSIVE splitWhitespace(_)
splitWhitespace(s) ==
    LET at == {i \in 1 .. Len(s) : charAt(s, i) \in Whitespace}
        k == CHOOSE i \in at : \A j \in at : i <= j
    IN  IF at = {} THEN <<s>>
        ELSE <<SubSeq(s, 1, k - 1)>> \o splitWhitespace(skipWhitespace(sliceFrom(s, k)))

\* titleWords: the title's words longer than two characters
titleWordsOf(title) ==
    LET Long(w) == Len(w) > 2
    IN  SelectSeq(splitWhitespace(stripPunctuation(toLowerCase(title))), Long)

\* issueNumber?.toString() || ''
issueStrOf(issueNumber) == IF issueNumber = None THEN "" ELSE ToString(issueNumber[1])

\* The number of entries of titleWords the branch name contains.
RECURSIVE wordMatches(_, _)
wordMatches(branchLower, titleWords) ==
    IF titleWords = <<>> THEN 0
    ELSE (IF includes(branchLower, Head(titleWords)) THEN 1 ELSE 0)
         + wordMatches(branchLower, Tail(titleWords))

\* The issue number weighing as much as one title word.
getBranchRelevanceScoreFlat(branch, issueNumber, titleWords) ==
    (IF issueNumber # "" /\ includes(branch, issueNumber) THEN 10 ELSE 0)
        + 10 * wordMatches(toLowerCase(branch), titleWords)

\* getBranchRelevanceScore(branch, issueNumber, titleWords)
getBranchRelevanceScore(branch, issueNumber, titleWords) ==
    (IF issueNumber # "" /\ includes(branch, issueNumber) THEN 100 ELSE 0)
        + 10 * wordMatches(toLowerCase(branch), titleWords)

\* One step of the stable sort with the comparator scoreB - scoreA.
insertBranch(done, b, issueStr, titleWords) ==
    LET score(x) == getBranchRelevanceScore(x, issueStr, titleWords)
        before == {k \in 1 .. Len(done) : score(b) - score(done[k]) <= 0}
        p == IF before = {} THEN 0 ELSE CHOOSE k \in before : \A j \in before : j <= k
    IN  SubSeq(done, 1, p) \o <<b>> \o SubSeq(done, p + 1, Len(done))

RECURSIVE sortBranches(_, _, _)
sortBranches(branches, issueStr, titleWords) ==
    IF branches = <<>> THEN <<>>
    ELSE insertBranch(sortBranches(SubSeq(branches, 1, Len(branches) - 1), issueStr, titleWords),
                      branches[Len(branches)], issueStr, titleWords)

\* sortBranchesByRelevance(branches, issueNumber, title)
sortBranchesByRelevance(branches, issueNumber, title) ==
    sortBranches(branches, issueStrOf(issueNumber), titleWordsOf(title))

\* branches.filter(b => b !== mainBranch)
nonMainBranches(branches) ==
    LET NotMain(b) == b # MainBranch
    IN  SelectSeq(branches, NotMain)

BranchNameSamples ==
    {MainBranch, "feature/12-login", "fix-LOGIN-page", "wip-112", "login", "misc"}

\* getAllBranches(): the branch names of the repository, each once.
BranchLists ==
    {bs \in SeqsUpTo(BranchNameSamples, MaxBranches) :
        \A i, j \in 1 .. Len(bs) : i # j => bs[i] # bs[j]}

TitleSamples == {"Fix login page", " Add: the Login!", "Go on"}

StartOptions ==
    {[cmd |-> "start", issueNumber |-> n, title |-> t] : n \in {Some(12), Some(1)},
                                                          t \in TitleSamples}

InitBranches ==
    /\ file = StoreFile("missing", <<>>)
    /\ prevFile = file
    /\ lastOp = NoOp
    /\ calls = NoCalls
    /\ labels = {}
    /\ labelDefined = {}
    /\ currentBranch = MainBranch
    /\ scope = "repo"
    /\ failures = 0
    /\ run = [p \in Sessions |-> IdleRun]
    /\ input \in BranchLists
    /\ items = input
    /\ options \in StartOptions
    /\ shown = None
    /\ fedBack = FALSE

\* start, "Link existing branch": the branches other than main are offered in
\* order of relevance; the command exits when there is none.
OfferBranches ==
    /\ options.cmd = "start"
    /\ shown = None
    /\ shown' = Some(IF nonMainBranches(items) = <<>>
                     THEN [exited |-> TRUE, branches |-> <<>>]
                     ELSE [exited |-> FALSE,
                           branches |-> sortBranchesByRelevance(nonMainBranches(items),
                                            options.issueNumber, options.title)])
    /\ UNCHANGED <<input, items, options, fedBack, linkVars, labelVars>>

NextBranches == OfferBranches

SpecBranches == InitBranches /\ [][NextBranches]_vars

Offered == shown # None /\ options.cmd = "start" /\ ~shown[1].exited

Ranked == shown[1].branches

ContainsNumber(b) == includes(b, ToString(options.issueNumber[1]))

MatchedWords(b) == wordMatches(toLowerCase(b), titleWordsOf(options.title))

ScoreOf(b) ==
    getBranchRelevanceScore(b, issueStrOf(options.issueNumber), titleWordsOf(options.title))

\* The place of a branch name in a list that holds it once.
PlaceIn(list, b) == CHOOSE k \in 1 .. Len(list) : list[k] = b

\* C20: a branch whose name contains the issue number is ranked before every
\* branch that does not contain it and matches exactly one title word; branches
\* of equal score keep the order of their enumeration; the ranking is a
\* permutation of the branches it was given.
C20_BranchRanking ==
    Offered =>
        /\ \A i, j \in 1 .. Len(Ranked) :
              (/\ ContainsNumber(Ranked[i])
               /\ ~ContainsNumber(Ranked[j])
               /\ MatchedWords(Ranked[j]) = 1) => i < j
        /\ \A i, j \in 1 .. Len(Ranked) :
              (i < j /\ ScoreOf(Ranked[i]) = ScoreOf(Ranked[j]))
                  => PlaceIn(input, Ranked[i]) < PlaceIn(input, Ranked[j])
        /\ Len(Ranked) = Len(nonMainBranches(input))
        /\ {Ranked[k] : k \in 1 .. Len(Ranked)} =
              {b \in {input[k] : k \in 1 .. Len(input)} : b # MainBranch}

\* C20 witness: a branch matching one title word was enumerated before a
\* branch containing the issue number and is offered after it.
C20_Witness ==
    /\ Offered
    /\ \E i, j \in 1 .. Len(Ranked) :
          /\ i < j
          /\ ContainsNumber(Ranked[i])
          /\ ~ContainsNumber(Ranked[j])
          /\ MatchedWords(Ranked[j]) = 1
          /\ PlaceIn(input, Ranked[j]) < PlaceIn(input, Ranked[i])

\* ---------------------------------------------------------------------------
\* planCommand from its entry: shortcut, target projects, view
\* ---------------------------------------------------------------------------

\* opts[key], or the default when the option is not set
Opt(opts, key, default) == IF key \in DOMAIN opts THEN opts[key] ELSE default

\* getShortcut(name): config.shortcuts?.[name]. The shortcuts are an object, so
\* a name of Object.prototype that is not configured yields the inherited
\* value, which is truthy and has no property of a shortcut.
getShortcut(shortcuts, name) ==
    IF FieldValue(shortcuts, name) # None THEN FieldValue(shortcuts, name)
    ELSE IF name \in ObjectPrototypeKeys THEN Some(<<>>)
    ELSE None

\* { ...defaults, ...shortcut, ...cliOpts, slice: [all three slices] }
mergeOptions(defaults, shortcut, cliOpts) ==
    [slice |-> Opt(defaults, "slice", <<>>) \o Opt(shortcut, "slice", <<>>)
                  \o Opt(cliOpts, "slice", <<>>)]
        @@ cliOpts @@ shortcut @@ defaults

\* projects.filter(p => p.title.toLowerCase().includes(options.project.toLowerCase()))
targetProjectsOf(opts) ==
    LET Named(p) == includes(toLowerCase(p[2]), toLowerCase(opts.project))
    IN  IF "project" \in DOMAIN opts /\ opts.project # ""
        THEN SelectSeq(TargetProjects, Named) ELSE TargetProjects

\* allItems: the items of the target projects, project after project
RECURSIVE allItemsOf(_, _)
allItemsOf(targets, list) ==
    IF targets = <<>> THEN <<>>
    ELSE LET Of(item) == item.projectId = Head(targets)[1]
         IN  SelectSeq(list, Of) \o allItemsOf(Tail(targets), list)

\* The first target project that holds a view of the name.
viewProjectIn(targets, name, boardFilter) ==
    LET Has(p) == ViewOf(p[1], name, boardFilter) # None
    IN  First(SelectSeq(targets, Has))

\* planCommand up to the filtered items: code is the exit code, exited tells
\* that the command ended before it filtered.
planCommand(shortcutName, cliOpts, config, boardFilter, list) ==
    LET shortcut == IF Truthy(shortcutName) THEN getShortcut(config.shortcuts, shortcutName[1])
                    ELSE Some(<<>>)
        opts == mergeOptions(config.defaults, shortcut[1], cliOpts)
        slices == Unique(opts.slice)
        targets == targetProjectsOf(opts)
        allItems == allItemsOf(targets, list)
        view == Opt(opts, "view", "")
        project == IF view = "" THEN None ELSE viewProjectIn(targets, view, boardFilter)
        viewed == IF project = None THEN allItems
                  ELSE PlanViewed(allItems, project[1],
                                  [view |-> Some(view), boardFilter |-> boardFilter])
        mine == IF Opt(opts, "mine", FALSE) THEN Mine(viewed) ELSE viewed
        unassigned == IF Opt(opts, "unassigned", FALSE) THEN Unassigned(mine) ELSE mine
        status == IF Opt(opts, "status", "") # ""
                  THEN PlanStatus(unassigned, <<opts.status>>) ELSE unassigned
    IN  IF shortcut = None THEN [exited |-> TRUE, code |-> 1, items |-> <<>>]
        ELSE IF targets = <<>> THEN [exited |-> TRUE, code |-> 0, items |-> <<>>]
        ELSE IF view # "" /\ project = None THEN [exited |-> TRUE, code |-> 1, items |-> <<>>]
        ELSE [exited |-> FALSE, code |-> 0, items |-> PlanSliced(status, slices)]

ShortcutNameSamples == {None, Some("mywork"), Some("nope"), Some("constructor")}

ConfigSamples ==
    { [defaults |-> <<>>, shortcuts |-> <<>>],
      [defaults |-> [slice |-> <<"label=bug">>],
       shortcuts |-> << <<"mywork", [mine |-> TRUE, project |-> "road",
                                     slice |-> <<"label=bug", "state=open">>]>> >>] }

CliOptsSamples ==
    { <<>>, [view |-> "Board"], [view |-> "nope"], [project |-> "sprint", view |-> "board"],
      [project |-> "zzz", view |-> "board"], [status |-> "done", unassigned |-> FALSE] }

PlanCommandOptions ==
    { [cmd |-> "planCommand", shortcut |-> s, cli |-> c, config |-> g, boardFilter |-> b] :
        s \in ShortcutNameSamples, c \in CliOptsSamples, g \in ConfigSamples,
        b \in {None, Some("label:bug")} }

InitPlan ==
    /\ file = StoreFile("missing", <<>>)
    /\ prevFile = file
    /\ lastOp = NoOp
    /\ calls = NoCalls
    /\ labels = {}
    /\ labelDefined = {}
    /\ currentBranch = MainBranch
    /\ scope = "repo"
    /\ failures = 0
    /\ run = [p \in Sessions |-> IdleRun]
    /\ input \in SeqsUpTo(ItemSamples, MaxItems)
    /\ items = input
    /\ options \in PlanCommandOptions
    /\ shown = None
    /\ fedBack = FALSE

\* ghp plan [shortcut] [options]
PlanCommand ==
    /\ options.cmd = "planCommand"
    /\ shown = None
    /\ shown' = Some(planCommand(options.shortcut, options.cli, options.config,
                                 options.boardFilter, items))
    /\ UNCHANGED <<input, items, options, fedBack, linkVars, labelVars>>

NextPlan == PlanCommand

SpecPlan == InitPlan /\ [][NextPlan]_vars

PlanDone == shown # None /\ options.cmd = "planCommand"

\* The shortcut name given is not among the configured shortcuts.
ShortcutNotConfigured ==
    /\ options.shortcut # None
    /\ FieldValue(options.config.shortcuts, options.shortcut[1]) = None

\* The options as merged from the defaults, the configured shortcut and the
\* command line.
MergedOptions ==
    mergeOptions(options.config.defaults,
                 IF options.shortcut # None /\ ~ShortcutNotConfigured
                 THEN FieldValue(options.config.shortcuts, options.shortcut[1])[1] ELSE <<>>,
                 options.cli)

\* --view names a view that none of the target projects holds.
ViewInNoTargetProject ==
    /\ Opt(MergedOptions, "view", "") # ""
    /\ \A k \in 1 .. Len(targetProjectsOf(MergedOptions)) :
          ViewOf(targetProjectsOf(MergedOptions)[k][1], MergedOptions.view,
                 options.boardFilter) = None

\* C21: plan with a shortcut name that is not configured, or with --view
\* naming a view that none of the target projects holds, ends with a nonzero
\* exit code and produces no filtered items.
C21_UnknownShortcutOrViewFatal ==
    (PlanDone /\ (ShortcutNotConfigured \/ ViewInNoTargetProject)) =>
        /\ shown[1].exited
        /\ shown[1].code # 0
        /\ shown[1].items = <<>>

(***************************************************************************)
(* Properties of the order and the conditions of the label calls           *)
(* (SpecLabels).                                                           *)
(***************************************************************************)
\* The run has queried the holders for a target issue and has returned.
QueriedAndReturned(r) ==
    r.pc = "done" /\ r.outcome = "returned" /\ r.queried /\ r.target # 0

AddIssued(r) ==
    \E i \in Calls(r, "addLabelToIssue") : <<r.log[i][2], r.log[i][3]>> = <<CwdRepo, r.target>>

\* C22: in every reconciliation (start, switch, link-branch, sync) the label
\* is added to the target issue if and only if the target is not among the
\* holders the query returned.
C22_AddIffNotHolder ==
    QueriedAndReturned(run[1]) =>
        (AddIssued(run[1]) <=> ~HasLabel(run[1].holders, CwdRepo, run[1].target))

LabelCalls ==
    {"ensureLabel", "findIssuesWithLabel", "findProjectItemsWithLabel",
     "removeLabelFromIssue", "addLabelToIssue"}

\* The first label call of the run, if any, is ensureLabel on the command's repository.
EnsureFirst(r) ==
    \A i \in 1 .. Len(r.log) :
        (r.log[i][1] \in LabelCalls /\ \A j \in 1 .. i - 1 : r.log[j][1] \notin LabelCalls)
            => (r.log[i][1] = "ensureLabel" /\ r.log[i][2] = CwdRepo)

\* C23: in every reconciliation (start, switch, link-branch, sync) ensureLabel
\* on the repository is the first label call: it comes before the query of the
\* holders and before any removal or addition of the label.
C23_EnsureLabelFirst == EnsureFirst(run[1])

\* ---------------------------------------------------------------------------
\* The sort comparator on pairs of items
\* ---------------------------------------------------------------------------

\* Two items whose titles differ by a soft hyphen only.
HyphenatedSamples ==
    { SortableItem(Some(7), "co" \o SoftHyphen \o "op", "issue",
        ProjectItem(7, <<"bob">>, <<>>, None, Some("open"), Some("r1"),
                    TargetProjects[1], << <<"Status", "Todo">> >>)),
      SortableItem(Some(8), "coop", "issue",
        ProjectItem(8, <<"bob">>, <<>>, None, Some("open"), Some("r1"),
                    TargetProjects[1], << <<"Status", "Todo">> >>)) }

CompareSamples == SortSamples \cup HyphenatedSamples

CompareOptions ==
    {[cmd |-> c, compare |-> s] :
        c \in {"plan", "work"},
        s \in SortKeySamples \cup {"title,number", "-title,-number", "Priority,repo,-title"}}

InitCompare ==
    /\ file = StoreFile("missing", <<>>)
    /\ prevFile = file
    /\ lastOp = NoOp
    /\ calls = NoCalls
    /\ labels = {}
    /\ labelDefined = {}
    /\ currentBranch = MainBranch
    /\ scope = "repo"
    /\ failures = 0
    /\ run = [p \in Sessions |-> IdleRun]
    /\ input \in CompareSamples \X CompareSamples
    /\ items = input
    /\ options \in CompareOptions
    /\ shown = None
    /\ fedBack = FALSE

\* The comparator of --sort called on (a, b) and on (b, a).
Compare ==
    /\ "compare" \in DOMAIN options
    /\ shown = None
    /\ shown' = Some([exited |-> FALSE,
                      ab |-> compareItems(items[1], items[2],
                                          sortFieldsOf(options.compare), options.cmd),
                      ba |-> compareItems(items[2], items[1],
                                          sortFieldsOf(options.compare), options.cmd)])
    /\ UNCHANGED <<input, items, options, fedBack, linkVars, labelVars>>

NextCompare == Compare

SpecCompare == InitCompare /\ [][NextCompare]_vars

Compared == shown # None /\ "compare" \in DOMAIN options

\* The name of the k-th sort key, without its direction.
KeyNameAt(k) ==
    LET field == sortFieldsOf(options.compare)[k]
    IN  IF startsWith(field, "-") THEN sliceFrom(field, 2) ELSE field

\* The two items resolve to different values on the k-th key.
DiffersAt(k) ==
    getFieldValue(input[1], KeyNameAt(k), options.cmd)
        # getFieldValue(input[2], KeyNameAt(k), options.cmd)

DifferingKeys == {k \in 1 .. Len(sortFieldsOf(options.compare)) : DiffersAt(k)}

Sign(n) == IF n < 0 THEN -1 ELSE IF n > 0 THEN 1 ELSE 0

\* C24: the comparator decides by the first key on which the two items'
\* values differ, skipping the keys on which they are equal or both absent; it
\* returns 0 if no key differs; compare(a,b) and compare(b,a) have opposite
\* signs.
C24_FirstDifferingKeyDecides ==
    Compared =>
        /\ (DifferingKeys = {}) => shown[1].ab = 0
        /\ (DifferingKeys # {}) =>
              LET k == CHOOSE i \in DifferingKeys : \A j \in DifferingKeys : i <= j
              IN  /\ shown[1].ab # 0
                  /\ shown[1].ab = compareField(input[1], input[2],
                                        sortFieldsOf(options.compare)[k], options.cmd)
        /\ Sign(shown[1].ab) = -Sign(shown[1].ba)

(***************************************************************************)
(* Frame of the linker operations (SpecLinks).                             *)
(***************************************************************************)
\* The last operation was linkBranch or unlinkBranch and did not throw.
LinkedOrUnlinked == lastOp.op \in {"linkBranch", "unlinkBranch"} /\ ~lastOp.threw

\* C26: linkBranch and unlinkBranch for a repository leave the links of every
\* other repository as they were, also those of the same branch name or issue
\* number: getAllLinksForRepo of another repository returns the same links
\* before and after.
C26_OtherRepositoriesUntouched ==
    LinkedOrUnlinked =>
        \A other \in Repos \ {lastOp.repo} :
            LinksOf(StoredLinks, other) = LinksOf(PrevLinks, other)

\* C26 witness: a link was written for one repository while another
\* repository held a link of the same branch and one of the same issue, and
\* still holds them.
C26_Witness ==
    /\ lastOp.op = "linkBranch"
    /\ lastOp.wrote
    /\ \E other \in Repos \ {lastOp.repo} :
          /\ \E k \in 1 .. Len(StoredLinks) :
                StoredLinks[k].repo = other /\ StoredLinks[k].branch = lastOp.branch
          /\ \E k \in 1 .. Len(StoredLinks) :
                StoredLinks[k].repo = other /\ StoredLinks[k].issueNumber = lastOp.issue

(***************************************************************************)
(* SpecRace: two processes call linkBranch on one store file.  Nothing     *)
(* locks the file: between the readFileSync of loadLinks and the           *)
(* writeFileSync of saveLinks of one process the other process may run.    *)
(* Each process makes one call.                                            *)
(***************************************************************************)
\* The value a process filters and saves: the one its own loadLinks returned.
Reloaded(p) == loadLinks(file)

Snapshot(p) == calls[p].links

\* const links = loadLinks()
LoadStep(p) ==
    /\ calls[p].pc = "idle"
    /\ \E branch \in Branches, issueNumber \in Issues, repo \in Repos :
          calls' = [calls EXCEPT ![p] =
                       LinkCall("loaded", branch, issueNumber, repo, loadLinks(file))]
    /\ UNCHANGED <<file, prevFile, lastOp, labelVars, filterVars>>

\* links.filter(...), filtered.push(...), saveLinks(filtered)
SaveStep(p) ==
    LET c == calls[p]
        links == Snapshot(p)
    IN  /\ c.pc = "loaded"
        /\ prevFile' = file
        /\ IF Throws(links)
           THEN /\ file' = file
                /\ lastOp' = Op("linkBranch", c.repo, c.branch, c.issueNumber, TRUE, FALSE, None)
                /\ calls' = [calls EXCEPT ![p].pc = "threw"]
           ELSE /\ file' = saveLinks(Linked(links.elems, c.branch, c.issueNumber, c.repo))
                /\ lastOp' = Op("linkBranch", c.repo, c.branch, c.issueNumber, FALSE, TRUE, None)
                /\ calls' = [calls EXCEPT ![p].pc = "done"]
        /\ UNCHANGED <<labelVars, filterVars>>

RaceStores ==
    {StoreFile(k, <<>>) : k \in FileKinds}
        \cup {saveLinks(<<BranchLink(b, n, r)>>) : b \in Branches, n \in Issues, r \in Repos}

InitRace ==
    /\ file \in RaceStores
    /\ prevFile = file
    /\ lastOp = NoOp
    /\ calls = NoCalls
    /\ labels = {}
    /\ labelDefined = {}
    /\ currentBranch = MainBranch
    /\ scope = "repo"
    /\ failures = 0
    /\ run = [p \in Sessions |-> IdleRun]
    /\ NoView

NextRace == \E p \in Processes : LoadStep(p) \/ SaveStep(p)

SpecRace == InitRace /\ [][NextRace]_vars

\* Whether the links hold the link a call asked for.
HoldsLinkOf(links, c) ==
    \E k \in 1 .. Len(links) :
        /\ links[k].repo = c.repo
        /\ links[k].branch = c.branch
        /\ links[k].issueNumber = c.issueNumber

\* Both calls have saved, for different issues and different branches of one
\* repository.
BothLinked ==
    /\ \A p \in Processes : calls[p].pc = "done"
    /\ calls[1].repo = calls[2].repo
    /\ calls[1].branch # calls[2].branch
    /\ calls[1].issueNumber # calls[2].issueNumber

\* The process whose save was the last one.
LastSaver == CHOOSE p \in Processes : calls[p].issueNumber = lastOp.issue

FirstSaver == CHOOSE p \in Processes : p # LastSaver

\* C25: of two unlocked linkBranch calls for different issues and different
\* branches of one repository, each a load step and a save step, the store
\* holds afterwards the link of the call that saved last, and holds the link
\* of the other call only when the last saver had loaded it: an interleaving
\* in which both load before either saves leaves only one of the two links.
C25_LastSaverOverwrites ==
    BothLinked =>
        /\ HoldsLinkOf(StoredLinks, calls[LastSaver])
        /\ HoldsLinkOf(StoredLinks, calls[FirstSaver])
              <=> HoldsLinkOf(calls[LastSaver].links.elems, calls[FirstSaver])

\* C25 witness: both calls have saved and the store holds only one of the two
\* links, the other call's link having been in no store before.
C25_Witness ==
    /\ BothLinked
    /\ HoldsLinkOf(StoredLinks, calls[LastSaver])
    /\ ~HoldsLinkOf(StoredLinks, calls[FirstSaver])
    /\ HoldsLinkOf(PrevLinks, calls[FirstSaver])

(***************************************************************************)
(* sync on a branch with no linked issue (SpecLabels).                     *)
(***************************************************************************)
\* The calls of a kind in a run's log, in order.
CallsOf(r, call) ==
    LET Is(e) == e[1] = call IN SelectSeq(r.log, Is)

\* The <<repo, issue>> pairs of the calls of a kind.
IssuesOf(r, call) ==
    LET cs == CallsOf(r, call) IN [k \in 1 .. Len(cs) |-> <<cs[k][2], cs[k][3]>>]

\* A sync that found no issue linked to the current branch has ended.
SyncUnlinkedDone(r) == r.cmd = "sync" /\ r.target = 0 /\ r.pc = "done"

ResyncStores ==
    {StoreFile("missing", <<>>), saveLinks(<<BranchLink(GenBranch(1), 1, CwdRepo)>>)}

InitResync ==
    /\ file \in ResyncStores
    /\ prevFile = file
    /\ lastOp = NoOp
    /\ calls = NoCalls
    /\ \E H \in InitialHolders \cup ManyHolders, O \in SUBSET {<<OtherRepo, 1>>} :
        /\ labels = ({CwdRepo} \X H) \cup O
        /\ labelDefined = {l[1] : l \in labels}
    /\ currentBranch \in {MainBranch, GenBranch(1)}
    /\ scope \in {"repo", "project"}
    /\ failures = 0
    /\ run = [p \in Sessions |-> IdleRun]
    /\ NoView

\* The first sync.
SyncOnce ==
    /\ run[1].pc = "idle"
    /\ BeginSync(1)

\* The second sync, started when the first has ended.
SyncAgain ==
    /\ run[1].pc = "done"
    /\ run[2].pc = "idle"
    /\ BeginSync(2)

NextResync ==
    \/ SyncOnce
    \/ SyncAgain
    \/ \E p \in Sessions :
        \/ EnsureLabel(p)
        \/ EnsureOther(p)
        \/ FindIssuesWithLabel(p)
        \/ FindProjectItemsWithLabel(p)
        \/ RemoveLabelFromIssue(p)
        \/ AddLabelToIssue(p)

SpecResync == InitResync /\ [][NextResync]_vars

\* Whether the run queried the project's items (on the project path it does
\* when findItemByNumber found the issue on a board).
QueriedProject(r) == CallsOf(r, "findProjectItemsWithLabel") # <<>>

\* Both syncs have ended, no API call has failed and the item lookup gave
\* both the same answer.
SyncedTwice ==
    /\ run[1].pc = "done"
    /\ run[2].pc = "done"
    /\ failures = 0
    /\ QueriedProject(run[1]) <=> QueriedProject(run[2])

\* C28: when no API call fails and nothing else changes, a second sync right
\* after a first issues no addLabelToIssue and no removeLabelFromIssue.
C28_SecondSyncChangesNothing ==
    SyncedTwice =>
        /\ CallsOf(run[2], "addLabelToIssue") = <<>>
        /\ CallsOf(run[2], "removeLabelFromIssue") = <<>>

(***************************************************************************)
(* start declined at the uncommitted-changes prompt (SpecLabels).  The     *)
(* only process.exit(0) of startCommand follows handleUncommittedChanges   *)
(* returning false.                                                        *)
(***************************************************************************)
\* Session 1's start has just ended with exit code 0.
StartDeclined ==
    /\ run'[1] # run[1]
    /\ run'[1].cmd = "start"
    /\ run'[1].outcome = "exit0"

\* C29: a start that finds uncommitted changes and gets no y/yes ends with
\* the branch checked out, the link store, the labels and the label
\* definitions as they were, and with no status update and no label call made.
C29_DeclinedStartChangesNothing ==
    [][StartDeclined =>
          /\ UNCHANGED <<file, currentBranch, labels, labelDefined>>
          /\ run'[1].pc = "done"
          /\ run'[1].log = <<>>]_vars

\* C29 witness: a start of an issue whose linked branch is not the current
\* one was declined, while another issue bears the label.
C29_Witness ==
    /\ run[1].cmd = "start"
    /\ run[1].outcome = "exit0"
    /\ LinkedBranch(run[1].target) # None
    /\ currentBranch # LinkedBranch(run[1].target)[1]
    /\ \E n \in Targets : n # run[1].target /\ <<CwdRepo, n>> \in labels

(***************************************************************************)
(* SpecTwoSessions: the user runs one command in each of two terminals of  *)
(* the repository; the label calls of the two commands interleave freely.  *)
(* No target bears the label at the start; issue 3 may.                    *)
(***************************************************************************)
TwoSessionStores ==
    {StoreFile("missing", <<>>),
     saveLinks(<<BranchLink(GenBranch(1), 1, CwdRepo), BranchLink(GenBranch(2), 2, CwdRepo)>>)}

InitTwoSessions ==
    /\ file \in TwoSessionStores
    /\ prevFile = file
    /\ lastOp = NoOp
    /\ calls = NoCalls
    /\ \E H \in SUBSET {3} :
        /\ labels = {CwdRepo} \X H
        /\ labelDefined = {l[1] : l \in labels}
    /\ currentBranch \in WorkBranches \cup {MainBranch}
    /\ scope \in {"repo", "project"}
    /\ failures = 0
    /\ run = [p \in Sessions |-> IdleRun]
    /\ NoView

\* The session has run no command yet.
Fresh(p) == run[p].pc = "idle"

NextTwoSessions ==
    \E p \in Sessions :
        \/ Fresh(p) /\ BeginStart(p)
        \/ Fresh(p) /\ BeginLinkBranch(p)
        \/ Fresh(p) /\ BeginSwitch(p)
        \/ Fresh(p) /\ BeginSync(p)
        \/ EnsureLabel(p)
        \/ EnsureOther(p)
        \/ FindIssuesWithLabel(p)
        \/ FindProjectItemsWithLabel(p)
        \/ RemoveLabelFromIssue(p)
        \/ AddLabelToIssue(p)

SpecTwoSessions == InitTwoSessions /\ [][NextTwoSessions]_vars

\* The run has ended having added the label to its target.
AddedToTarget(r) ==
    /\ r.pc = "done"
    /\ r.target # 0
    /\ \E k \in 1 .. Len(r.log) : r.log[k] = <<"addLabelToIssue", CwdRepo, r.target, TRUE>>

\* Both sessions have reconciled, for different targets, with no call failing.
BothReconciled ==
    /\ AddedToTarget(run[1])
    /\ AddedToTarget(run[2])
    /\ run[1].target # run[2].target
    /\ failures = 0

\* Whether the holder query of run r returned the target of run o: it did
\* only if o had added the label before, that is, had run to its end.
SawTargetOf(r, o) == HasLabel(r.holders, CwdRepo, o.target)

BothTargetsLabelled ==
    /\ <<CwdRepo, run[1].target>> \in labels
    /\ <<CwdRepo, run[2].target>> \in labels

\* C30: two reconciliations of one user in one repository for different
\* targets, interleaved call by call and completing without failure, leave
\* both targets labelled exactly when neither holder query saw the other
\* target, i.e. when each queried before the other added; when one ran after
\* the other and saw its target, its own target is the only holder.
C30_OverlappingRunsLabelBoth ==
    BothReconciled =>
        /\ BothTargetsLabelled
              <=> (~SawTargetOf(run[1], run[2]) /\ ~SawTargetOf(run[2], run[1]))
        /\ SawTargetOf(run[1], run[2]) => Holders(CwdRepo) = {run[1].target}
        /\ SawTargetOf(run[2], run[1]) => Holders(CwdRepo) = {run[2].target}

\* C30 witness: both reconciliations have completed without failure and both
\* targets bear the label.
C30_Witness == BothReconciled /\ BothTargetsLabelled

====
